---- MODULE Spec2Model ----
(***************************************************************************)
(* A model of the AL Object ID server's mediation layer: the Retry Policy  *)
(* (RetryHandler), the Error Classifier (ErrorHandler), the Backend        *)
(* Request Mediator (BackendService over HttpClient), the Collision        *)
(* Detector and the Polling Loop (PollingService).                         *)
(*                                                                         *)
(* The process is a single JavaScript event loop: an action of this model  *)
(* is one run-to-completion step, from one suspension point (await, timer, *)
(* network callback) to the next.                                          *)
(***************************************************************************)
EXTENDS Integers, Sequences, FiniteSets, TLC

(***************************************************************************)
(* Bounds of the model.                                                    *)
(***************************************************************************)
MaxRetriesBound == 3

(***************************************************************************)
(* JavaScript values.  A property that is absent reads as `undefined`.     *)
(***************************************************************************)
Undefined == -1000
NoCode == "undefined"

Min(a, b) == IF a <= b THEN a ELSE b

RECURSIVE Pow(_, _)
Pow(b, n) == IF n <= 0 THEN 1 ELSE b * Pow(b, n - 1)

\* A number is truthy unless it is absent or 0.
TruthyNum(n) == n # Undefined /\ n # 0
\* A string is truthy unless it is absent or empty.
TruthyStr(s) == s # NoCode /\ s # ""

(***************************************************************************)
(* Error values.  kind is the class of the thrown value: "raw" is a plain  *)
(* object literal, the others are Error subclasses.  status and code are   *)
(* the duck-typed fields the predicates probe; statusCode is the field of  *)
(* BackendError.                                                           *)
(***************************************************************************)
RawError(status, code) ==
    [kind |-> "raw", status |-> status, code |-> code, statusCode |-> Undefined]

NetworkError(code) ==
    [kind |-> "NetworkError", status |-> Undefined, code |-> code, statusCode |-> Undefined]

BackendError(statusCode) ==
    [kind |-> "BackendError", status |-> Undefined, code |-> NoCode, statusCode |-> statusCode]

\* new Error(...) and the TypeError of a property read on undefined or null.
PlainError(kind) ==
    [kind |-> kind, status |-> Undefined, code |-> NoCode, statusCode |-> Undefined]

NoError == PlainError("none")

Statuses == {Undefined, 0, 200, 204, 301, 400, 401, 404, 429, 499, 500, 503, 599, 600}
Codes == {NoCode, "ECONNRESET", "ECONNREFUSED", "ETIMEDOUT", "ENOTFOUND", "UNKNOWN_ERROR"}
HttpStatuses == Statuses \ {Undefined, 0}

ErrorShapes ==
    {RawError(s, c) : s \in Statuses, c \in Codes}
        \cup {NetworkError(c) : c \in Codes}
        \cup {BackendError(s) : s \in HttpStatuses}
        \cup {PlainError("Error"), PlainError("TypeError")}

(***************************************************************************)
(* RetryHandler: the default retryable predicate of execute.               *)
(***************************************************************************)
RetryCodes == {"ECONNRESET", "ECONNREFUSED", "ETIMEDOUT", "ENOTFOUND"}

DefaultRetryableNo5xxUpper(error) ==
    \/ error.status = 0 \/ (error.status # Undefined /\ error.status >= 500)
    \/ error.status = 429
    \/ (TruthyStr(error.code) /\ error.code \in RetryCodes)

DefaultRetryable(error) ==
    \/ error.status = 0 \/ (error.status # Undefined /\ error.status >= 500 /\ error.status < 600)
    \/ error.status = 429
    \/ (TruthyStr(error.code) /\ error.code \in RetryCodes)

(***************************************************************************)
(* ErrorHandler.isRetryable.                                               *)
(***************************************************************************)
NetworkRetryCodes == {"ECONNREFUSED", "ECONNRESET", "ETIMEDOUT"}

isRetryable(error) ==
    IF error.kind = "NetworkError"
    THEN (IF error.code = NoCode THEN "" ELSE error.code) \in NetworkRetryCodes
    ELSE IF error.kind = "BackendError"
    THEN error.statusCode >= 500 \/ error.statusCode = 429
    ELSE IF TruthyNum(error.status)
    THEN error.status >= 500 \/ error.status = 429 \/ error.status = 0
    ELSE FALSE

(***************************************************************************)
(* ErrorHandler.handle: never returns; the value is the error it throws.   *)
(***************************************************************************)
handle(error) ==
    IF TruthyStr(error.code)
    THEN NetworkError(error.code)
    ELSE IF TruthyNum(error.status)
    THEN IF error.status \in {400, 401, 403, 404, 409, 429, 500, 502, 503, 504}
         THEN BackendError(error.status)
         ELSE IF error.status >= 400 /\ error.status < 500
         THEN BackendError(error.status)
         ELSE IF error.status >= 500
         THEN BackendError(error.status)
         ELSE error
    ELSE error

(***************************************************************************)
(* State.                                                                  *)
(*   retryHandler  the fields of the RetryHandler instance                 *)
(*   exec          the activation of RetryHandler.execute: its position,   *)
(*                 its predicate, the loop variable attempt, lastError,    *)
(*                 the value it resolved with or the error it threw        *)
(*   execLog       what the caller of execute observed: the number of      *)
(*                 invocations of the operation, and whether every one of  *)
(*                 them failed with an error the predicate judges          *)
(*                 retryable                                               *)
(*   probe         an error value handed to the Error Classifier           *)
(*   verdict       what ErrorHandler.isRetryable answered for probe        *)
(*   classified    what ErrorHandler.handle threw for probe                *)
(*   backend       config.backend of the mediator: whether the primary and *)
(*                 the polling endpoint have a URL                         *)
(*   call          the activation of one public BackendService operation   *)
(*   requests      the number of HTTP requests the current call has issued *)
(*   workspace     WorkspaceManager.getCurrentWorkspace(): absent, or the  *)
(*                 list of its apps                                        *)
(*   consumed      the backend's consumption: per app and object type the  *)
(*                 set of consumed IDs                                     *)
(*   consumptionCache  CollisionDetector.consumptionCache, by appId and    *)
(*                 object type                                             *)
(*   now           Date.now(), in milliseconds                             *)
(*   check         the activation of CollisionDetector.checkCollision      *)
(*   horizon       the time up to which the session is followed            *)
(*   lastFetch     the app, object type and time of the detector's latest  *)
(*                 getConsumption call                                     *)
(*   servedAt      per app and object type, when the backend last answered *)
(*                 such a call with a consumption (reset when the cache    *)
(*                 entry is dropped)                                       *)
(*   events        what the last step did: the getAppConsumption calls it  *)
(*                 made, each a cache "hit", a "fetch" or "denied"         *)
(*   config        PollingService.config                                   *)
(*   pollingTimer  whether PollingService.pollingTimer holds a timer       *)
(*   timers        the number of interval timers armed in the runtime      *)
(*   isPolling     PollingService.isPolling, the in-flight guard           *)
(*   running       the poll cycles that began and have not finished, each  *)
(*                 the set of its checks whose backend request is pending  *)
(*   lastPollTime  PollingService.lastPollTime, by app                     *)
(*   pollTrace     what the last step did: whether it called poll(), from  *)
(*                 where, whether poll() skipped, the backend requests it  *)
(*                 issued, the update events it emitted and the check that *)
(*                 settled in it                                           *)
(*   pools         the backend's pool membership, by app                   *)
(*   http          one call of HttpClient.send: the request it was given,  *)
(*                 the requests it issued, where the exchange is, and the  *)
(*                 promise it returned                                     *)
(*   scan          the answer of the last CollisionDetector                *)
(*                 .checkRangeOverlaps call                                *)
(*   gate          the tool-call handler of the server: MCP_MODE, the      *)
(*                 tools listed, the tool named by the last call and what  *)
(*                 became of the call                                      *)
(*   manager       the WorkspaceManager of the server: the workspaces it   *)
(*                 scanned, by root path, the current one, and the tool,   *)
(*                 appPath, app and sibling projects of the last call      *)
(*   req           the arguments of a BackendService.getNext or syncIds    *)
(*                 call                                                    *)
(*   built         the request that call handed to sendRequest             *)
(*   assign        a call of an allocation tool: its arguments, where it   *)
(*                 is, what it has granted, sent and emitted, its answer   *)
(*   assignmentHistory  AssignmentManager.assignmentHistory                *)
(*   persistedHistory   ConfigPersistence.config.assignments.history       *)
(*   document      the rest of ConfigPersistence.config: version,          *)
(*                 lastUpdated, workspaces, polling, preferences           *)
(*   isDirty       ConfigPersistence.isDirty                               *)
(*   saveTimer     when the timeout armed by scheduleSave is due, if one   *)
(*                 is armed                                                *)
(*   disk          the configuration file: what it holds and whether it    *)
(*                 can be written                                          *)
(*   clock         Date.now() of the server process, in milliseconds       *)
(*   server        the server process: whether it runs, whether its last   *)
(*                 start threw, the tool calls made, the app of            *)
(*                 authorize-app and what the last polling tool asked for  *)
(*   saved         what the last step did to the document: the mutation    *)
(*                 or the write, and the time of the last mutation         *)
(***************************************************************************)
VARIABLES retryHandler, exec, execLog,
          probe, verdict, classified,
          backend, call, requests, http, scan, gate, manager,
          workspace, consumed, consumptionCache, now, horizon, check, lastFetch, servedAt, events,
          config, pollingTimer, timers, isPolling, running, lastPollTime, pollTrace, pools,
          req, built, assign, assignmentHistory, persistedHistory,
          document, isDirty, saveTimer, disk, clock, server, saved

retryVars == <<retryHandler, exec, execLog>>
classifyVars == <<probe, verdict, classified>>
backendVars == <<backend, call, requests, http, scan, gate, manager>>
collisionVars == <<workspace, consumed, consumptionCache, now, horizon, check, lastFetch, servedAt, events>>
pollVars == <<config, pollingTimer, timers, isPolling, running, lastPollTime, pollTrace, pools>>
requestVars == <<req, built>>
assignVars == <<assign, assignmentHistory, persistedHistory>>
persistVars == <<document, isDirty, saveTimer, disk, clock, server, saved>>
vars == <<retryVars, classifyVars, backendVars, collisionVars, pollVars, requestVars, assignVars, persistVars>>

\* What the Retry Policy and the Error Classifier leave alone.
notRetry == <<classifyVars, backendVars, collisionVars, pollVars, requestVars, assignVars, persistVars>>
notClassify == <<retryVars, backendVars, collisionVars, pollVars, requestVars, assignVars, persistVars>>

DefaultMaxRetries == 3
DefaultInitialDelay == 1000
DefaultMaxDelay == 30000
DefaultBackoffMultiplier == 2

\* constructor(options): each absent option takes its default.
NewRetryHandler(maxRetries, initialDelay, maxDelay, backoffMultiplier) ==
    [maxRetries |-> IF maxRetries = Undefined THEN DefaultMaxRetries ELSE maxRetries,
     initialDelay |-> IF initialDelay = Undefined THEN DefaultInitialDelay ELSE initialDelay,
     maxDelay |-> IF maxDelay = Undefined THEN DefaultMaxDelay ELSE maxDelay,
     backoffMultiplier |->
        IF backoffMultiplier = Undefined THEN DefaultBackoffMultiplier ELSE backoffMultiplier]

\* The body of an HTTP response after JSON.parse; tag "undefined" is the
\* empty body.  The fields are the ones the mediator's operations read.
Body(tag, str, authKey, flag) ==
    [tag |-> tag, str |-> str, authKey |-> authKey, flag |-> flag]

NoBody == Body("undefined", "", NoCode, FALSE)

\* HttpResponse: {value?, error?, status}.
Response(status, hasError, code, value) ==
    [status |-> status, hasError |-> hasError, code |-> code, value |-> value]

NoResponse == Response(Undefined, FALSE, NoCode, NoBody)

\* What a public operation of the mediator returns: undefined, null, a
\* boolean (flag), a CheckAppResponse (flag is managed; "CheckAppFailed" is
\* the literal {managed: false}), an AuthorizationInfo (flag is authorized),
\* or the response body itself.
Ret(tag, flag, authKey, body) ==
    [tag |-> tag, flag |-> flag, authKey |-> authKey, body |-> body]

Predicates == {"default", "isRetryable", "always", "never"}

\* The retryable parameter of execute: the default, or what the caller gave.
Retryable(pred, error) ==
    CASE pred = "default" -> DefaultRetryable(error)
      [] pred = "isRetryable" -> isRetryable(error)
      [] pred = "always" -> TRUE
      [] OTHER -> FALSE

IdleExec ==
    [pc |-> "idle", retryable |-> "default", attempt |-> 0, lastError |-> NoError,
     thrown |-> NoError, value |-> NoResponse, waited |-> 0]

IdleLog == [calls |-> 0, allRetryable |-> TRUE, last |-> NoError]

\* execute(operation, retryable): lastError is undefined, attempt = 0.
BeginExecute(pred) == [IdleExec EXCEPT !.pc = "attempt", !.retryable = pred]

\* min(initialDelay * backoffMultiplier ^ attempt, maxDelay)
BackoffDelay(h, attempt) ==
    Min(h.initialDelay * Pow(h.backoffMultiplier, attempt), h.maxDelay)

\* The catch clause of one loop iteration: rethrow, or wait and go round.
CatchOffByOne(h, e, error) ==
    IF ~Retryable(e.retryable, error) \/ e.attempt + 1 = h.maxRetries
    THEN [e EXCEPT !.pc = "rejected", !.lastError = error, !.thrown = error]
    ELSE [e EXCEPT !.pc = "delay", !.lastError = error,
                   !.waited = BackoffDelay(h, e.attempt)]

Catch(h, e, error) ==
    IF ~Retryable(e.retryable, error) \/ e.attempt = h.maxRetries
    THEN [e EXCEPT !.pc = "rejected", !.lastError = error, !.thrown = error]
    ELSE [e EXCEPT !.pc = "delay", !.lastError = error,
                   !.waited = BackoffDelay(h, e.attempt)]

\* The loop test `attempt <= this.maxRetries`.
InLoop(h, e) == e.pc = "attempt" /\ e.attempt <= h.maxRetries

\* One iteration of the loop, `return await operation()`, when this
\* invocation of the operation fulfils with value.
Fulfilled(e, value) == [e EXCEPT !.pc = "resolved", !.value = value]

\* What the caller has seen after one more invocation of the operation.
Invoked(e, log, ok, error) ==
    [calls |-> log.calls + 1,
     allRetryable |-> log.allRetryable /\ ~ok /\ Retryable(e.retryable, error),
     last |-> error]

(***************************************************************************)
(* The Retry Policy on its own: a handler constructed with any maxRetries, *)
(* executing operations whose every invocation fulfils or rejects with an  *)
(* error of any shape.                                                     *)
(***************************************************************************)
IdleClassify ==
    /\ probe = NoError
    /\ verdict = "unset"
    /\ classified = NoError

IdleCall ==
    [op |-> "none", pc |-> "idle", failed |-> FALSE, settled |-> "pending",
     result |-> Ret("undefined", FALSE, NoCode, NoBody), error |-> NoError]

\* HttpClient before send is called: no request issued, no promise made.
NoSend ==
    [pc |-> "idle", method |-> "GET", data |-> FALSE, issued |-> 0, written |-> FALSE,
     statusCode |-> Undefined, cause |-> "none", code |-> NoCode, promise |-> "none",
     result |-> NoResponse, message |-> ""]

\* The tool-call handler before the server is set up.
NoGate == [env |-> "unset", tools |-> {}, name |-> "none", outcome |-> "none"]

\* The directories tool calls name: /ws holds the apps /ws/A and /ws/B, /solo
\* is an app of its own, /none does not exist.
Roots == {"/ws", "/ws/A", "/ws/B", "/solo", "/none"}

\* A root path the manager holds no workspace for.
NoInfo == [present |-> FALSE, apps |-> <<>>, activeApp |-> NoCode]

\* `workspaces = new Map()`, `currentWorkspace` undefined; no tool was called.
NoManager ==
    [workspaces |-> [root \in Roots |-> NoInfo], currentWorkspace |-> NoCode,
     tool |-> "none", appPath |-> NoCode, app |-> NoCode, siblings |-> {}]

\* No range-overlap scan was asked for.
NoScan == [done |-> FALSE, findings |-> {}]

IdleBackend ==
    /\ backend = [url |-> TRUE, pollUrl |-> TRUE]
    /\ call = IdleCall
    /\ requests = 0
    /\ http = NoSend
    /\ scan = NoScan
    /\ gate = NoGate
    /\ manager = NoManager

AppIds == {"A", "B", "C"}
ObjectTypes == {"table", "page"}

NoEntry == [cached |-> FALSE, ids |-> {}, lastUpdated |-> 0]

NoFetch == [app |-> "none", objectType |-> "none", at |-> 0]

NoFinding == [found |-> FALSE, apps |-> <<>>, severity |-> "none", count |-> 0]

IdleCheck ==
    [pc |-> "idle", objectType |-> "table", id |-> 0, currentApp |-> "A", i |-> 0,
     collidingApps |-> <<>>, got |-> {}, result |-> NoFinding]

DefaultInterval == 30000

\* The config the PollingService is constructed with.
DefaultConfig ==
    [enabled |-> FALSE, interval |-> DefaultInterval, checkConsumption |-> TRUE,
     checkCollisions |-> TRUE, checkPools |-> FALSE]

\* No check settled.
NoSettle == [app |-> "none", check |-> "none", ok |-> FALSE]

NoTrace ==
    [poll |-> "none", source |-> "none", issued |-> 0, emitted |-> {},
     settled |-> NoSettle]

\* The backend holds no pool.
NoPools == [a \in AppIds |-> Undefined]

IdlePollingService ==
    /\ config = DefaultConfig
    /\ pollingTimer = FALSE
    /\ timers = 0
    /\ isPolling = FALSE
    /\ running = <<>>
    /\ lastPollTime = [a \in AppIds |->
            [polled |-> Undefined, counts |-> [t \in ObjectTypes |-> 0],
             pool |-> Undefined]]
    /\ pollTrace = NoTrace

IdlePolling ==
    /\ IdlePollingService
    /\ pools = NoPools

\* No call of getNext or syncIds.
NoReq ==
    [op |-> "none", commit |-> FALSE, perRange |-> FALSE, require |-> Undefined,
     ranges |-> <<>>, merge |-> FALSE]

NoBuilt == [op |-> "none", path |-> "", method |-> "", ranges |-> <<>>]

IdleRequest ==
    /\ req = NoReq
    /\ built = NoBuilt

NoAnswer == [isError |-> FALSE, text |-> "none"]

\* No call of an allocation tool.
NoAssign ==
    [pc |-> "idle", tool |-> "none", authorized |-> FALSE, count |-> 0,
     checkCollisions |-> FALSE, suggestAlternatives |-> FALSE, i |-> 0, id |-> 0,
     assignedIds |-> <<>>, collisions |-> <<>>, suggestions |-> <<>>,
     sent |-> [getNext |-> 0, syncIds |-> 0, suggest |-> 0],
     payload |-> <<>>, merge |-> FALSE, synced |-> "none",
     emitted |-> {}, history0 |-> 0, persisted0 |-> 0, answer |-> NoAnswer]

IdleAssign ==
    /\ assign = NoAssign
    /\ assignmentHistory = <<>>
    /\ persistedHistory = <<>>

\* getDefaultConfig().preferences, of which the model keeps two.
DefaultPreferences == [autoSync |-> TRUE, logLevel |-> "info"]

\* A section of the document: the fields it holds and their values.
Section(has, val) == [has |-> has, val |-> val]

\* `workspaces: {}`; a saved workspace holds the authKey of its app and
\* whether lastAuthorized was set.
NoWorkspaces == [saved |-> FALSE, authKey |-> NoCode, lastAuthorized |-> FALSE]

\* getDefaultConfig() at time t, but for assignments.history, which is [].
getDefaultConfig(t) ==
    [version |-> "1.0.0", lastUpdated |-> t, workspaces |-> NoWorkspaces,
     polling |-> Section(DOMAIN DefaultConfig, DefaultConfig),
     preferences |-> Section(DOMAIN DefaultPreferences, DefaultPreferences),
     extra |-> FALSE]

\* The configuration file: missing, not JSON, the JSON text `null`, or a
\* JSON object; whether writeFileSync succeeds on it.
File(kind, doc, history, writable) ==
    [kind |-> kind, doc |-> doc, history |-> history, writable |-> writable]

NoApp == [isAuthorized |-> FALSE, authKey |-> NoCode]

NoAsk == [call |-> "none", config |-> DefaultConfig, flushed |-> FALSE]

NoSave == [step |-> "none", by |-> "none", lastMutation |-> Undefined, burst |-> 0,
           attempts |-> 0,
           content |-> File("missing", getDefaultConfig(0), <<>>, TRUE)]

\* The server process after its start-up, before any tool call.
NoServer ==
    [phase |-> "running", threw |-> FALSE, calls |-> 0, tool |-> "none", app |-> NoApp,
     backendKey |-> "none", asked |-> NoAsk]

IdlePersistence ==
    /\ document = getDefaultConfig(0)
    /\ isDirty = FALSE
    /\ saveTimer = Undefined
    /\ disk = File("missing", getDefaultConfig(0), <<>>, TRUE)
    /\ clock = 0
    /\ server = NoServer
    /\ saved = NoSave

IdleCollision ==
    /\ workspace = [present |-> FALSE, apps |-> <<>>]
    /\ consumed = [a \in AppIds |-> [t \in ObjectTypes |-> {}]]
    /\ consumptionCache = [a \in AppIds |-> [t \in ObjectTypes |-> NoEntry]]
    /\ now = 0
    /\ horizon = 0
    /\ check = IdleCheck
    /\ lastFetch = NoFetch
    /\ servedAt = [a \in AppIds |-> [t \in ObjectTypes |-> Undefined]]
    /\ events = {}

RetryInit ==
    /\ \E n \in (-1 .. MaxRetriesBound) \cup {Undefined} :
          retryHandler = NewRetryHandler(n, Undefined, Undefined, Undefined)
    /\ exec = IdleExec
    /\ execLog = IdleLog
    /\ IdleClassify
    /\ IdleBackend
    /\ IdleCollision
    /\ IdlePolling
    /\ IdleRequest
    /\ IdleAssign
    /\ IdlePersistence

Execute ==
    /\ exec.pc \in {"idle", "resolved", "rejected"}
    /\ \E pred \in Predicates : exec' = BeginExecute(pred)
    /\ execLog' = IdleLog
    /\ UNCHANGED <<retryHandler, notRetry>>

OperationFulfils ==
    /\ InLoop(retryHandler, exec)
    /\ exec' = Fulfilled(exec, NoResponse)
    /\ execLog' = Invoked(exec, execLog, TRUE, NoError)
    /\ UNCHANGED <<retryHandler, notRetry>>

OperationRejects ==
    /\ InLoop(retryHandler, exec)
    /\ \E error \in ErrorShapes :
          /\ exec' = Catch(retryHandler, exec, error)
          /\ execLog' = Invoked(exec, execLog, FALSE, error)
    /\ UNCHANGED <<retryHandler, notRetry>>

\* `await this.delay(delay)` has elapsed: attempt++.
DelayElapsed ==
    /\ exec.pc = "delay"
    /\ exec' = [exec EXCEPT !.pc = "attempt", !.attempt = @ + 1]
    /\ UNCHANGED <<retryHandler, execLog, notRetry>>

\* The loop test fails: `throw lastError`.
LoopExit ==
    /\ exec.pc = "attempt"
    /\ ~InLoop(retryHandler, exec)
    /\ exec' = [exec EXCEPT !.pc = "rejected", !.thrown = exec.lastError]
    /\ UNCHANGED <<retryHandler, execLog, notRetry>>

RetryNext ==
    \/ Execute
    \/ OperationFulfils
    \/ OperationRejects
    \/ DelayElapsed
    \/ LoopExit

SpecRetry == RetryInit /\ [][RetryNext]_vars

\* C1: a RetryHandler with maxRetries = N >= 0 whose operation fails on every
\* call with an error the predicate judges retryable invokes the operation
\* exactly N+1 times and then rejects with the error of the last invocation.
C1_AllFailingInvokesNPlusOne ==
    (retryHandler.maxRetries >= 0 /\ execLog.allRetryable /\ execLog.calls > 0) =>
        /\ execLog.calls <= retryHandler.maxRetries + 1
        /\ exec.pc # "resolved"
        /\ exec.pc = "rejected" <=> execLog.calls = retryHandler.maxRetries + 1
        /\ exec.pc = "rejected" => exec.thrown = execLog.last

C1_Witness ==
    /\ retryHandler.maxRetries = 2
    /\ execLog.allRetryable
    /\ execLog.calls = 3
    /\ exec.pc = "rejected"
    /\ exec.thrown = RawError(500, NoCode)

\* C2: with the default predicate a failed operation is invoked again (while
\* attempts remain) if and only if the error has status 0, status 429, a
\* status in 500..599, or a code among ECONNRESET, ECONNREFUSED, ETIMEDOUT,
\* ENOTFOUND; after any other error there is no further invocation and that
\* error is propagated.
C2_Listed(error) ==
    \/ error.status \in {0, 429} \cup (500 .. 599)
    \/ error.code \in {"ECONNRESET", "ECONNREFUSED", "ETIMEDOUT", "ENOTFOUND"}

C2_DefaultPredicateRetries ==
    (exec.retryable = "default" /\ execLog.calls > 0 /\ exec.pc # "resolved") =>
        /\ exec.pc \in {"delay", "attempt"} => C2_Listed(execLog.last)
        /\ (exec.pc = "rejected" /\ exec.attempt < retryHandler.maxRetries) =>
              ~C2_Listed(execLog.last)
        /\ ~C2_Listed(execLog.last) =>
              exec.pc = "rejected" /\ exec.thrown = execLog.last

C2_Witness ==
    /\ exec.retryable = "default"
    /\ exec.pc = "attempt"
    /\ execLog.calls = 1
    /\ execLog.last = RawError(429, NoCode)

(***************************************************************************)
(* The Error Classifier on its own: any error value is judged and          *)
(* classified.                                                             *)
(***************************************************************************)
IdleRetry ==
    /\ retryHandler = NewRetryHandler(Undefined, Undefined, Undefined, Undefined)
    /\ exec = IdleExec
    /\ execLog = IdleLog

ClassifyInit ==
    /\ IdleRetry
    /\ probe \in ErrorShapes
    /\ verdict = "unset"
    /\ classified = NoError
    /\ IdleBackend
    /\ IdleCollision
    /\ IdlePolling
    /\ IdleRequest
    /\ IdleAssign
    /\ IdlePersistence

Judge ==
    /\ verdict = "unset"
    /\ verdict' = IF isRetryable(probe) THEN "true" ELSE "false"
    /\ UNCHANGED <<notClassify, probe, classified>>

Classify ==
    /\ classified = NoError
    /\ classified' = handle(probe)
    /\ UNCHANGED <<notClassify, probe, verdict>>

ClassifyNext ==
    \/ Judge
    \/ Classify

SpecClassify == ClassifyInit /\ [][ClassifyNext]_vars

\* C4: ErrorHandler.isRetryable of a raw error that carries a status field is
\* true exactly when status >= 500, status = 429 or status = 0.
C4_RawStatusRetryable ==
    (probe.kind = "raw" /\ probe.status # Undefined /\ verdict # "unset") =>
        (verdict = "true" <=>
            (probe.status >= 500 \/ probe.status = 429 \/ probe.status = 0))

\* C30: ErrorHandler.isRetryable of a raw error without a status field is true
\* when its code is ECONNRESET, ECONNREFUSED, ETIMEDOUT or ENOTFOUND, and
\* false when it has any other code or no code.
C30_RawCodeRetryable ==
    (probe.kind = "raw" /\ probe.status = Undefined /\ verdict # "unset") =>
        (verdict = "true" <=>
            probe.code \in {"ECONNRESET", "ECONNREFUSED", "ETIMEDOUT", "ENOTFOUND"})

(***************************************************************************)
(* HttpClient.send: what the promise resolves with for each thing the      *)
(* network can do to the one request it issues.  A network event is        *)
(*   "end"      the response ended: statusCode, and a body that is empty,  *)
(*              malformed, or JSON text that parses to json                *)
(*   "error"    the request emitted 'error' with code                      *)
(*   "timeout"  the request emitted 'timeout'                              *)
(***************************************************************************)
Net(event, statusCode, body, json, code) ==
    [event |-> event, statusCode |-> statusCode, body |-> body, json |-> json, code |-> code]

ResponseStatuses == {200, 204, 301, 400, 401, 404, 429, 500, 503}

JsonBodies ==
    {Body("null", "", NoCode, FALSE),
     Body("string", "true", NoCode, FALSE),
     Body("string", "false", NoCode, FALSE),
     Body("object", "", NoCode, FALSE),
     Body("object", "", NoCode, TRUE),
     Body("object", "", "", FALSE),
     Body("object", "", "key", FALSE),
     Body("object", "", "key", TRUE)}

NetEvents ==
    {Net("end", sc, "empty", NoBody, NoCode) : sc \in ResponseStatuses}
        \cup {Net("end", sc, "malformed", NoBody, NoCode) : sc \in ResponseStatuses}
        \cup {Net("end", sc, "json", j, NoCode) : sc \in ResponseStatuses, j \in JsonBodies}
        \cup {Net("error", Undefined, "empty", NoBody, c) : c \in Codes \ {NoCode}}
        \cup {Net("timeout", Undefined, "empty", NoBody, NoCode)}

send(net) ==
    CASE net.event = "end" ->
            IF net.body = "empty" \/ net.statusCode = 204
            THEN Response(net.statusCode, FALSE, NoCode, NoBody)
            ELSE IF net.body = "json"
            THEN Response(net.statusCode, FALSE, NoCode, net.json)
            ELSE Response(net.statusCode, TRUE, NoCode, NoBody)
      [] net.event = "error" -> Response(0, TRUE, net.code, NoBody)
      [] OTHER -> Response(0, TRUE, NoCode, NoBody)

(***************************************************************************)
(* BackendService.sendRequest.                                             *)
(***************************************************************************)
\* The operation handed to the Retry Policy: Thrown is the object literal it
\* throws for result, or NoError when it returns result.  The literal has a
\* status, a message and details; the code of a network failure is inside
\* details, not a field of the literal.
Thrown(result) ==
    IF result.hasError
    THEN RawError(result.status, NoCode)
    ELSE IF result.status >= 400
    THEN RawError(result.status, NoCode)
    ELSE NoError

BackendMaxRetries == 3
BackendInitialDelay == 1000
BackendMaxDelay == 10000

Operations ==
    {"checkApp", "getNext", "authorizeApp", "getAuthInfo", "deauthorizeApp", "syncIds",
     "autoSyncIds", "storeAssignment", "getConsumption", "checkUpdate", "check",
     "createPool", "joinPool", "leavePool"}

\* usePollBackend
UsesPollBackend(op) == op \in {"checkUpdate", "check"}

\* `if (!backend.url) throw new Error(...)`
UrlConfigured(b, op) == IF UsesPollBackend(op) THEN b.pollUrl ELSE b.url

\* Reading a property of the body: a TypeError when the body is undefined or
\* null, otherwise the read succeeds.
ReadThrows(body) == body.tag \in {"undefined", "null"}

\* The value of body.authKey where the read succeeds.
AuthKeyOf(body) == IF body.tag = "object" THEN body.authKey ELSE NoCode

\* The value of body.deleted, body.updated, body.authorized.
FlagOf(body) == body.tag = "object" /\ body.flag

\* JavaScript truthiness of a body.
TruthyBody(body) ==
    \/ body.tag = "object"
    \/ body.tag = "string" /\ body.str # ""

\* The catch clause of each public operation: what it returns when its try
\* block threw; authorizeApp rethrows instead.
Benign(op) ==
    CASE op = "checkApp" -> Ret("CheckAppFailed", FALSE, NoCode, NoBody)
      [] op \in {"getNext", "getAuthInfo", "getConsumption", "createPool"} ->
            Ret("undefined", FALSE, NoCode, NoBody)
      [] op \in {"deauthorizeApp", "syncIds", "storeAssignment", "leavePool"} ->
            Ret("boolean", FALSE, NoCode, NoBody)
      [] OTHER -> Ret("null", FALSE, NoCode, NoBody)

RethrowsGetNextToo(op) == op \in {"authorizeApp", "getNext"}

Rethrows(op) == op = "authorizeApp"

\* The rest of the try block of each public operation after sendRequest
\* returned body: the error it throws, or NoError.
BodyThrows(op, body) ==
    CASE op \in {"authorizeApp", "getAuthInfo", "deauthorizeApp", "storeAssignment"} ->
            IF ReadThrows(body) THEN PlainError("TypeError") ELSE NoError
      [] op = "getConsumption" ->
            \* `response._total = total` on a string in strict mode
            IF body.tag = "string" /\ TruthyBody(body)
            THEN PlainError("TypeError") ELSE NoError
      [] OTHER -> NoError

\* ... and the value it returns when it does not throw.
BodyReturns(op, body) ==
    CASE op = "checkApp" ->
            Ret("CheckAppResponse", body.tag = "string" /\ body.str = "true", NoCode, NoBody)
      [] op = "authorizeApp" ->
            Ret("AuthorizationInfo", TruthyStr(AuthKeyOf(body)),
                IF TruthyStr(AuthKeyOf(body)) THEN AuthKeyOf(body) ELSE "", NoBody)
      [] op = "getAuthInfo" -> Ret("AuthorizationInfo", FlagOf(body), "key", NoBody)
      [] op \in {"deauthorizeApp", "storeAssignment"} ->
            Ret("boolean", FlagOf(body), NoCode, NoBody)
      [] op \in {"syncIds", "leavePool"} -> Ret("boolean", TRUE, NoCode, NoBody)
      [] OTHER -> Ret("body", FALSE, NoCode, body)

\* A public operation settles: thrown is what its try block threw (NoError
\* if nothing) and body what sendRequest returned.
Settle(c, thrown, body) ==
    IF thrown # NoError
    THEN IF Rethrows(c.op)
         THEN [c EXCEPT !.pc = "done", !.failed = TRUE, !.settled = "rejected",
                        !.error = thrown]
         ELSE [c EXCEPT !.pc = "done", !.failed = TRUE, !.settled = "resolved",
                        !.result = Benign(c.op)]
    ELSE IF BodyThrows(c.op, body) # NoError
    THEN IF Rethrows(c.op)
         THEN [c EXCEPT !.pc = "done", !.settled = "rejected",
                        !.error = BodyThrows(c.op, body)]
         ELSE [c EXCEPT !.pc = "done", !.settled = "resolved", !.result = Benign(c.op)]
    ELSE [c EXCEPT !.pc = "done", !.settled = "resolved",
                   !.result = BodyReturns(c.op, body)]

notBackend == <<http, scan, gate, manager, classifyVars, collisionVars, pollVars, requestVars, assignVars, persistVars>>

BackendInit ==
    /\ retryHandler = NewRetryHandler(BackendMaxRetries, BackendInitialDelay,
                                      BackendMaxDelay, Undefined)
    /\ exec = IdleExec
    /\ execLog = IdleLog
    /\ IdleClassify
    /\ backend \in [url : BOOLEAN, pollUrl : BOOLEAN]
    /\ call = IdleCall
    /\ requests = 0
    /\ http = NoSend
    /\ scan = NoScan
    /\ gate = NoGate
    /\ manager = NoManager
    /\ IdleCollision
    /\ IdlePolling
    /\ IdleRequest
    /\ IdleAssign
    /\ IdlePersistence

\* A public operation is called and sendRequest finds no URL.
CallUnconfigured ==
    /\ call.pc \in {"idle", "done"}
    /\ \E op \in Operations :
          /\ ~UrlConfigured(backend, op)
          /\ call' = Settle([IdleCall EXCEPT !.op = op], PlainError("Error"), NoBody)
    /\ requests' = 0
    /\ exec' = IdleExec
    /\ execLog' = IdleLog
    /\ UNCHANGED <<retryHandler, backend, notBackend>>

\* A public operation is called and sendRequest hands its request to the
\* Retry Policy with ErrorHandler.isRetryable as the predicate.
CallOperation ==
    /\ call.pc \in {"idle", "done"}
    /\ \E op \in Operations :
          /\ UrlConfigured(backend, op)
          /\ call' = [IdleCall EXCEPT !.op = op, !.pc = "sending"]
    /\ requests' = 0
    /\ exec' = BeginExecute("isRetryable")
    /\ execLog' = IdleLog
    /\ UNCHANGED <<retryHandler, backend, notBackend>>

\* One invocation of the operation: httpClient.send issues a request, the
\* network answers, and the operation returns the result or throws.
TransportResponds ==
    /\ call.pc = "sending"
    /\ InLoop(retryHandler, exec)
    /\ \E net \in NetEvents :
          LET result == send(net)
              error == Thrown(result)
          IN /\ exec' = IF error = NoError THEN Fulfilled(exec, result)
                        ELSE Catch(retryHandler, exec, error)
             /\ execLog' = Invoked(exec, execLog, error = NoError, error)
    /\ requests' = requests + 1
    /\ UNCHANGED <<retryHandler, backend, call, notBackend>>

\* The Retry Policy's backoff elapsed inside sendRequest.
BackoffElapsed ==
    /\ call.pc = "sending"
    /\ exec.pc = "delay"
    /\ exec' = [exec EXCEPT !.pc = "attempt", !.attempt = @ + 1]
    /\ UNCHANGED <<retryHandler, execLog, backend, call, requests, notBackend>>

\* execute resolved: sendRequest returns response.value to the operation.
RequestSucceeds ==
    /\ call.pc = "sending"
    /\ exec.pc = "resolved"
    /\ call' = Settle(call, NoError, exec.value.value)
    /\ UNCHANGED <<retryVars, backend, requests, notBackend>>

\* execute rejected: sendRequest gives up, ErrorHandler.handle classifies the
\* error and throws it to the operation.
RequestFails ==
    /\ call.pc = "sending"
    /\ exec.pc = "rejected"
    /\ call' = Settle(call, handle(exec.thrown), NoBody)
    /\ UNCHANGED <<retryVars, backend, requests, notBackend>>

BackendNext ==
    \/ CallUnconfigured
    \/ CallOperation
    \/ TransportResponds
    \/ BackoffElapsed
    \/ RequestSucceeds
    \/ RequestFails

Spec == BackendInit /\ [][BackendNext]_vars

\* C3: when the transport attempt of a mediator operation fails at connection
\* level (HttpClient resolves with status 0), the mediator retries it, so it
\* gives up on such a failure only after 4 requests (1 initial + 3 retries).
C3_ConnectionFailureRetried ==
    (call.pc = "sending" /\ exec.pc = "rejected" /\ execLog.last.status = 0) =>
        requests = BackendMaxRetries + 1

C6_NoCredentialIsNotAuthorized ==
    (/\ call.pc = "done"
     /\ call.op = "authorizeApp"
     /\ exec.pc = "resolved"
     /\ exec.value.status \in 200 .. 299
     /\ AuthKeyOf(exec.value.value) = NoCode) =>
        /\ call.settled = "resolved"
        /\ call.result.tag = "AuthorizationInfo"
        /\ ~call.result.flag

(***************************************************************************)
(* CollisionDetector.                                                      *)
(***************************************************************************)
TickMs == 150000
MaxTicks == 2

\* cacheTimeout
CacheTimeout == 5 * 60 * 1000

Range(from, to) == [from |-> from, to |-> to]

\* WorkspaceApp: ranges is optional, authKey is optional.
App(appId, hasRanges, ranges, isAuthorized, authKey) ==
    [appId |-> appId, hasRanges |-> hasRanges, ranges |-> ranges,
     isAuthorized |-> isAuthorized, authKey |-> authKey]

RangesA == <<Range(50000, 50999)>>
RangesB == <<Range(50500, 51499)>>
RangesC == <<Range(50000, 50099), Range(50900, 50999)>>

\* The candidate IDs: below every range, the first and last ID of A's range,
\* inside B's range only, above every range.
CandidateIds == {49999, 50000, 50999, 51000, 51500}

\* The workspaces the detector is used in: none, or two or three apps of
\* which A may be unauthorized and C may lack its credential or its ranges.
Workspaces ==
    {[present |-> FALSE, apps |-> <<>>]}
        \cup {[present |-> TRUE,
               apps |-> <<App("A", TRUE, RangesA, authA, "keyA"),
                          App("B", TRUE, RangesB, TRUE, "keyB")>>] : authA \in BOOLEAN}
        \cup {[present |-> TRUE,
               apps |-> <<App("A", TRUE, RangesA, authA, "keyA"),
                          App("B", TRUE, RangesB, TRUE, "keyB"),
                          c>>] :
                 authA \in BOOLEAN,
                 c \in {App("C", TRUE, RangesC, TRUE, "keyC"),
                        App("C", TRUE, RangesC, TRUE, NoCode),
                        App("C", FALSE, <<>>, TRUE, "keyC")}}

\* What the backend holds.
Consumptions ==
    {[a \in AppIds |-> [t \in ObjectTypes |->
          IF a = "A" /\ t = "table" THEN {50000} ELSE {}]],
     [a \in AppIds |-> [t \in ObjectTypes |->
          CASE a = "A" /\ t = "table" -> {50000, 50999}
            [] a = "B" /\ t = "table" -> {50999, 51000}
            [] a = "C" /\ t = "table" -> {50000}
            [] a = "C" /\ t = "page" -> {50999}
            [] OTHER -> {}]]}

isIdInRangesExclusiveTo(id, app) ==
    /\ app.hasRanges
    /\ \E n \in 1 .. Len(app.ranges) : id >= app.ranges[n].from /\ id < app.ranges[n].to

isIdInRanges(id, app) ==
    /\ app.hasRanges
    /\ \E n \in 1 .. Len(app.ranges) : id >= app.ranges[n].from /\ id <= app.ranges[n].to

\* `cached && Date.now() - cached.lastUpdated < this.cacheTimeout`
CacheValidLenient(cache, appId, objectType, t) ==
    /\ cache[appId][objectType].cached
    /\ t - cache[appId][objectType].lastUpdated <= CacheTimeout

CacheValid(cache, appId, objectType, t) ==
    /\ cache[appId][objectType].cached
    /\ t - cache[appId][objectType].lastUpdated < CacheTimeout

Event(appId, objectType, type) == [app |-> appId, objectType |-> objectType, type |-> type]

\* `if (consumption && consumption.includes(id)) collidingApps.push(...)`,
\* where consumption is what getAppConsumption returned, a list of IDs.
Push(c, appId, ids) ==
    [c EXCEPT !.collidingApps = IF c.id \in ids THEN Append(@, appId) ELSE @,
              !.got = @ \cup {[app |-> appId, ids |-> ids]}]

\* The end of checkCollision: a finding if collidingApps is not empty.
Finish(c) ==
    [c EXCEPT !.pc = "done",
              !.result = IF Len(c.collidingApps) > 0
                         THEN [found |-> TRUE, apps |-> c.collidingApps,
                               severity |-> "error", count |-> Len(c.collidingApps)]
                         ELSE NoFinding]

\* The loop of checkCollision from the i-th app on, up to its end or to the
\* first app whose consumption has to be fetched; ev collects the
\* getAppConsumption calls made on the way.
RECURSIVE LoopIncludingSelf(_, _, _, _)
LoopIncludingSelf(c, i, ev, cache) ==
    IF i > Len(workspace.apps)
    THEN [check |-> Finish(c), events |-> ev]
    ELSE LET app == workspace.apps[i]
         IN IF ~isIdInRanges(c.id, app)
            THEN LoopIncludingSelf(c, i + 1, ev, cache)
            ELSE IF ~app.isAuthorized \/ ~TruthyStr(app.authKey)
            THEN LoopIncludingSelf(c, i + 1,
                     ev \cup {Event(app.appId, c.objectType, "denied")}, cache)
            ELSE IF CacheValid(cache, app.appId, c.objectType, now)
            THEN LoopIncludingSelf(Push(c, app.appId, cache[app.appId][c.objectType].ids),
                     i + 1, ev \cup {Event(app.appId, c.objectType, "hit")}, cache)
            ELSE [check |-> [c EXCEPT !.pc = "fetching", !.i = i],
                  events |-> ev \cup {Event(app.appId, c.objectType, "fetch")}]

RECURSIVE Loop(_, _, _, _)
Loop(c, i, ev, cache) ==
    IF i > Len(workspace.apps)
    THEN [check |-> Finish(c), events |-> ev]
    ELSE LET app == workspace.apps[i]
         IN IF app.appId = c.currentApp
            THEN Loop(c, i + 1, ev, cache)
            ELSE IF ~isIdInRanges(c.id, app)
            THEN Loop(c, i + 1, ev, cache)
            ELSE IF ~app.isAuthorized \/ ~TruthyStr(app.authKey)
            THEN Loop(c, i + 1, ev \cup {Event(app.appId, c.objectType, "denied")}, cache)
            ELSE IF CacheValid(cache, app.appId, c.objectType, now)
            THEN Loop(Push(c, app.appId, cache[app.appId][c.objectType].ids),
                      i + 1, ev \cup {Event(app.appId, c.objectType, "hit")}, cache)
            ELSE [check |-> [c EXCEPT !.pc = "fetching", !.i = i],
                  events |-> ev \cup {Event(app.appId, c.objectType, "fetch")}]

\* lastFetch after the getConsumption call among ev, if there is one (the
\* loop stops at the first).
Fetched(ev) ==
    IF \E e \in ev : e.type = "fetch"
    THEN LET e == CHOOSE e \in ev : e.type = "fetch"
         IN [app |-> e.app, objectType |-> e.objectType, at |-> now]
    ELSE lastFetch

notCollision == <<retryVars, classifyVars, backendVars, pollVars, requestVars, assignVars, persistVars>>

CollisionInit ==
    /\ IdleRetry
    /\ IdleClassify
    /\ IdleBackend
    /\ workspace \in Workspaces
    /\ consumed \in Consumptions
    /\ consumptionCache = [a \in AppIds |-> [t \in ObjectTypes |-> NoEntry]]
    /\ now = 0
    \* A workspace of three apps is followed for an instant, a smaller one
    \* for MaxTicks ticks.
    /\ horizon = IF Len(workspace.apps) > 2 THEN 0 ELSE MaxTicks * TickMs
    /\ check = IdleCheck
    /\ lastFetch = NoFetch
    /\ servedAt = [a \in AppIds |-> [t \in ObjectTypes |-> Undefined]]
    /\ events = {}
    /\ IdlePolling
    /\ IdleRequest
    /\ IdleAssign
    /\ IdlePersistence

\* checkCollision without a current workspace: null.
CheckWithoutWorkspace ==
    /\ check.pc = "idle"
    /\ ~workspace.present
    /\ \E objectType \in ObjectTypes, id \in CandidateIds, currentApp \in AppIds :
          check' = Finish([IdleCheck EXCEPT !.objectType = objectType, !.id = id,
                                            !.currentApp = currentApp])
    /\ events' = {}
    /\ UNCHANGED <<workspace, consumed, consumptionCache, now, horizon, lastFetch, servedAt,
                   notCollision>>

\* checkCollision(objectType, id, currentApp), up to its first await.
CheckCollision ==
    /\ check.pc = "idle"
    /\ workspace.present
    /\ \E objectType \in ObjectTypes, id \in CandidateIds, currentApp \in AppIds :
          LET run == Loop([IdleCheck EXCEPT !.objectType = objectType, !.id = id,
                                            !.currentApp = currentApp],
                          1, {}, consumptionCache)
          IN /\ check' = run.check
             /\ events' = run.events
             /\ lastFetch' = Fetched(run.events)
    /\ UNCHANGED <<workspace, consumed, consumptionCache, now, horizon, servedAt, notCollision>>

\* getConsumption answered with the app's consumption: the entry is cached
\* with the time of the answer and the loop goes on.
FetchSucceeds ==
    /\ check.pc = "fetching"
    /\ LET appId == workspace.apps[check.i].appId
           consumption == consumed[appId][check.objectType]
           cache == [consumptionCache EXCEPT ![appId][check.objectType] =
                        [cached |-> TRUE, ids |-> consumption, lastUpdated |-> now]]
           run == Loop(Push(check, appId, consumption), check.i + 1, {}, cache)
       IN /\ consumptionCache' = cache
          /\ servedAt' = [servedAt EXCEPT ![appId][check.objectType] = now]
          /\ check' = run.check
          /\ events' = run.events
          /\ lastFetch' = Fetched(run.events)
    /\ UNCHANGED <<workspace, consumed, now, horizon, notCollision>>

\* getConsumption answered undefined (the request failed): getAppConsumption
\* returns null, nothing is cached and the loop goes on.
FetchFails ==
    /\ check.pc = "fetching"
    /\ LET run == Loop(check, check.i + 1, {}, consumptionCache)
       IN /\ check' = run.check
          /\ events' = run.events
          /\ lastFetch' = Fetched(run.events)
    /\ UNCHANGED <<workspace, consumed, consumptionCache, now, horizon, servedAt, notCollision>>

\* The caller of checkCollision took its result.
CheckReturns ==
    /\ check.pc = "done"
    /\ check' = IdleCheck
    /\ events' = {}
    /\ UNCHANGED <<workspace, consumed, consumptionCache, now, horizon, lastFetch, servedAt,
                   notCollision>>

\* Time passes.
Tick ==
    /\ now < horizon
    /\ now' = now + TickMs
    /\ events' = {}
    /\ UNCHANGED <<workspace, consumed, consumptionCache, horizon, check, lastFetch, servedAt,
                   notCollision>>

\* clearCache()
ClearCache ==
    /\ consumptionCache' = [a \in AppIds |-> [t \in ObjectTypes |-> NoEntry]]
    /\ servedAt' = [a \in AppIds |-> [t \in ObjectTypes |-> Undefined]]
    /\ events' = {}
    /\ UNCHANGED <<workspace, consumed, now, horizon, check, lastFetch, notCollision>>

invalidateAppCacheClearsAll(cache, appId) == [a \in AppIds |-> [t \in ObjectTypes |-> NoEntry]]

\* invalidateAppCache(appId): every key that starts with the appId is
\* deleted.  App IDs are GUIDs, none the start of another.
invalidateAppCache(cache, appId) == [cache EXCEPT ![appId] = [t \in ObjectTypes |-> NoEntry]]

\* invalidateAppCache(appId)
InvalidateAppCache ==
    /\ \E appId \in AppIds :
          /\ consumptionCache' = invalidateAppCache(consumptionCache, appId)
          /\ servedAt' = [servedAt EXCEPT ![appId] = [t \in ObjectTypes |-> Undefined]]
    /\ events' = {}
    /\ UNCHANGED <<workspace, consumed, now, horizon, check, lastFetch, notCollision>>

CollisionNext ==
    \/ CheckWithoutWorkspace
    \/ CheckCollision
    \/ FetchSucceeds
    \/ FetchFails
    \/ CheckReturns
    \/ Tick
    \/ ClearCache
    \/ InvalidateAppCache

SpecCollision == CollisionInit /\ [][CollisionNext]_vars

(***************************************************************************)
(* The detector while IDs are synced: a workspace of A and B, the backend  *)
(* holding more after a sync or an assignment of this server succeeded.    *)
(***************************************************************************)
StaleInit ==
    /\ IdleRetry
    /\ IdleClassify
    /\ IdleBackend
    /\ workspace = [present |-> TRUE,
                    apps |-> <<App("A", TRUE, RangesA, TRUE, "keyA"),
                               App("B", TRUE, RangesB, TRUE, "keyB")>>]
    /\ consumed = [a \in AppIds |-> [t \in ObjectTypes |->
                       IF a = "A" /\ t = "table" THEN {50000} ELSE {}]]
    /\ consumptionCache = [a \in AppIds |-> [t \in ObjectTypes |-> NoEntry]]
    /\ now = 0
    /\ horizon = CacheTimeout
    /\ check = IdleCheck
    /\ lastFetch = NoFetch
    /\ servedAt = [a \in AppIds |-> [t \in ObjectTypes |-> Undefined]]
    /\ events = {}
    /\ IdlePolling
    /\ IdleRequest
    /\ IdleAssign
    /\ IdlePersistence

\* syncIds succeeded, in the sync step of assignIds or in sync-object-ids:
\* the backend holds the new IDs; nothing is said to the detector.
SyncIds ==
    /\ consumed' \in {c \in Consumptions :
                          /\ c # consumed
                          /\ \A a \in AppIds, t \in ObjectTypes : consumed[a][t] \subseteq c[a][t]}
    /\ events' = {}
    /\ UNCHANGED <<workspace, consumptionCache, now, horizon, check, lastFetch, servedAt,
                   notCollision>>

StaleNext ==
    \/ CheckCollision
    \/ FetchSucceeds
    \/ FetchFails
    \/ CheckReturns
    \/ Tick
    \/ ClearCache
    \/ InvalidateAppCache
    \/ SyncIds

SpecStale == StaleInit /\ [][StaleNext]_vars

\* The entry of a project and kind is cached and less than 5 minutes old.
C27_Unexpired(a, t) ==
    consumptionCache[a][t].cached /\ now - consumptionCache[a][t].lastUpdated < CacheTimeout

C7_OneFetchWithinFiveMinutes ==
    [][\A e \in events' :
          (e.type = "fetch" /\ lastFetch.app = e.app
              /\ lastFetch.objectType = e.objectType) =>
                now - lastFetch.at >= CacheTimeout]_vars

\* C7 (amended): once the backend has answered a fetch for a sibling project
\* and object kind, and while the cache entry is not invalidated, a collision
\* check that consults that project and kind less than 5 minutes after the
\* answer reuses the snapshot and issues no fetch, and one that consults it 5
\* minutes or more after the answer (or with no answer yet) issues a fetch.
C7_ServedAge(e) == now - servedAt[e.app][e.objectType]

C7_FreshSnapshotReused ==
    [][\A e \in events' :
          /\ e.type = "hit" =>
                /\ servedAt[e.app][e.objectType] # Undefined
                /\ C7_ServedAge(e) < 5 * 60 * 1000
          /\ e.type = "fetch" =>
                \/ servedAt[e.app][e.objectType] = Undefined
                \/ C7_ServedAge(e) >= 5 * 60 * 1000]_vars

C7_Witness ==
    /\ check.pc = "fetching"
    /\ Event("A", "table", "fetch") \in events
    /\ servedAt["A"]["table"] = 0
    /\ consumptionCache["A"]["table"].cached
    /\ now >= 5 * 60 * 1000

\* C8: checkCollision returns a finding of severity 'error' listing exactly
\* the projects s of the current workspace such that s is not the claimant,
\* id lies inside one of s's declared ranges and id appears in s's
\* consumption snapshot for the kind; it returns no finding exactly when
\* there is no such project.
C8_InDeclaredRange(id, app) ==
    app.hasRanges /\ \E r \in {app.ranges[n] : n \in 1 .. Len(app.ranges)} :
        r.from <= id /\ id <= r.to

\* The snapshot the detector has of an app: the one this check obtained, else
\* the unexpired cached one.
C8_Snapshot(appId, objectType) ==
    IF \E g \in check.got : g.app = appId
    THEN (CHOOSE g \in check.got : g.app = appId).ids
    ELSE IF consumptionCache[appId][objectType].cached
            /\ now - consumptionCache[appId][objectType].lastUpdated < 5 * 60 * 1000
    THEN consumptionCache[appId][objectType].ids
    ELSE {}

C8_Colliding ==
    {s.appId : s \in {a \in {workspace.apps[n] : n \in 1 .. Len(workspace.apps)} :
        /\ a.appId # check.currentApp
        /\ C8_InDeclaredRange(check.id, a)
        /\ check.id \in C8_Snapshot(a.appId, check.objectType)}}

C8_FindingListsColliders ==
    check.pc = "done" =>
        /\ check.result.found <=> C8_Colliding # {}
        /\ check.result.found =>
              /\ check.result.severity = "error"
              /\ {check.result.apps[n] : n \in 1 .. Len(check.result.apps)} = C8_Colliding
              /\ Len(check.result.apps) = Cardinality(C8_Colliding)
              /\ check.result.count = Cardinality(C8_Colliding)

C8_Witness ==
    /\ check.pc = "done"
    /\ check.currentApp = "B"
    /\ check.id = 50000
    /\ check.result.found
    /\ check.result.apps = <<"A", "C">>

\* C9 (as stated): with project A (range [50000,50999], consumed table ID
\* 50000) and project B (range [50500,51499], nothing consumed) in one
\* workspace, checking (table, 50000) with claimant B returns no finding.
C9_Scenario ==
    /\ workspace.present
    /\ Len(workspace.apps) = 2
    /\ workspace.apps[1].appId = "A" /\ workspace.apps[1].ranges = <<Range(50000, 50999)>>
    /\ workspace.apps[2].appId = "B" /\ workspace.apps[2].ranges = <<Range(50500, 51499)>>
    /\ consumed["A"] = [t \in ObjectTypes |-> IF t = "table" THEN {50000} ELSE {}]
    /\ consumed["B"] = [t \in ObjectTypes |-> {}]
    /\ check.pc = "done"
    /\ check.objectType = "table"
    /\ check.id = 50000

C9_ClaimantBNoFinding ==
    (C9_Scenario /\ check.currentApp = "B") => ~check.result.found

\* C9 (amended): in that workspace the check of (table, 50000) with claimant
\* B returns an error finding listing A whenever it obtained A's consumption
\* (A is authorized and the fetch succeeded or an unexpired entry was
\* cached), and no finding otherwise; with claimant A it returns no finding.
C9_ClaimantBFindsA ==
    C9_Scenario =>
        /\ (check.currentApp = "B" /\ (\E g \in check.got : g.app = "A")) =>
              /\ check.result.found
              /\ check.result.severity = "error"
              /\ check.result.apps = <<"A">>
        /\ (check.currentApp = "B" /\ ~(\E g \in check.got : g.app = "A")) =>
              ~check.result.found
        /\ check.currentApp = "A" => ~check.result.found

C9_Witness ==
    /\ C9_Scenario
    /\ check.currentApp = "B"
    /\ check.result.found
    /\ check.result.apps = <<"A">>

(***************************************************************************)
(* PollingService.                                                         *)
(***************************************************************************)
MaxCycles == 2

Max(a, b) == IF a >= b THEN a ELSE b

\* Partial<PollingConfig>: the fields given and their values.
Partial(has, val) == [has |-> has, val |-> val]

NoConfig == Partial({}, DefaultConfig)

\* The arguments start is called with.
StartConfigs ==
    {NoConfig,
     Partial({"enabled"}, [DefaultConfig EXCEPT !.enabled = TRUE]),
     Partial({"enabled"}, [DefaultConfig EXCEPT !.enabled = FALSE]),
     Partial({"enabled", "checkPools"},
             [DefaultConfig EXCEPT !.enabled = TRUE, !.checkPools = TRUE]),
     Partial({"enabled", "checkConsumption", "checkCollisions"},
             [DefaultConfig EXCEPT !.enabled = TRUE, !.checkConsumption = FALSE,
                                   !.checkCollisions = FALSE])}

\* `{ ...this.config, ...config }`
Merge(cfg, partial) ==
    [k \in DOMAIN cfg |-> IF k \in partial.has THEN partial.val[k] ELSE cfg[k]]

findOverlappingRangesStrict(app1, app2) ==
    IF ~app1.hasRanges \/ ~app2.hasRanges
    THEN {}
    ELSE {[m |-> m, n |-> n,
           from |-> Max(app1.ranges[m].from, app2.ranges[n].from),
           to |-> Min(app1.ranges[m].to, app2.ranges[n].to)] :
             <<m, n>> \in {mn \in (1 .. Len(app1.ranges)) \X (1 .. Len(app2.ranges)) :
                 Max(app1.ranges[mn[1]].from, app2.ranges[mn[2]].from)
                     < Min(app1.ranges[mn[1]].to, app2.ranges[mn[2]].to)}}

\* findOverlappingRanges: one overlap for each pair of ranges that share an
\* ID, none when either app declares no ranges.
findOverlappingRanges(app1, app2) ==
    IF ~app1.hasRanges \/ ~app2.hasRanges
    THEN {}
    ELSE {[m |-> m, n |-> n,
           from |-> Max(app1.ranges[m].from, app2.ranges[n].from),
           to |-> Min(app1.ranges[m].to, app2.ranges[n].to)] :
             <<m, n>> \in {mn \in (1 .. Len(app1.ranges)) \X (1 .. Len(app2.ranges)) :
                 Max(app1.ranges[mn[1]].from, app2.ranges[mn[2]].from)
                     <= Min(app1.ranges[mn[1]].to, app2.ranges[mn[2]].to)}}

\* checkRangeOverlaps: a warning finding for each overlap of each pair of
\* apps of the workspace.
checkRangeOverlaps(ws) ==
    IF ~ws.present
    THEN {}
    ELSE UNION {{[apps |-> <<ws.apps[ij[1]].appId, ws.apps[ij[2]].appId>>,
                  id |-> o.from, to |-> o.to, severity |-> "warning",
                  ranges |-> <<o.m, o.n>>] :
                    o \in findOverlappingRanges(ws.apps[ij[1]], ws.apps[ij[2]])} :
                ij \in {p \in (1 .. Len(ws.apps)) \X (1 .. Len(ws.apps)) : p[1] < p[2]}}

\* An update event.
UpdateEvent(type, appId, objectType, count, previousCount) ==
    [type |-> type, appId |-> appId, objectType |-> objectType, count |-> count,
     previousCount |-> previousCount]

\* `app.isAuthorized && app.authKey`
Polled(app) == app.isAuthorized /\ TruthyStr(app.authKey)

PolledApps(ws) == {n \in 1 .. Len(ws.apps) : Polled(ws.apps[n])}

\* checkCollisionUpdates of every polled app: the overlaps are computed
\* without waiting, so the events are out before the cycle waits.
CollisionUpdates(ws) ==
    LET collisions == checkRangeOverlaps(ws)
        of(appId) == {c \in collisions : c.apps[1] = appId \/ c.apps[2] = appId}
    IN  {UpdateEvent("collision", ws.apps[n].appId, "none",
                     Cardinality(of(ws.apps[n].appId)), Undefined) :
           n \in {k \in PolledApps(ws) : of(ws.apps[k].appId) # {}}}

\* A check of one app that waits for a backend request.
Task(appId, kind, at) == [app |-> appId, check |-> kind, at |-> at]

\* The checks of a cycle that wait for the backend: getConsumption of
\* checkConsumptionUpdates, checkApp of checkPoolUpdates.
Tasks(ws, cfg, t) ==
    {Task(ws.apps[n].appId, "consumption", t) : n \in {k \in PolledApps(ws) : cfg.checkConsumption}}
        \cup {Task(ws.apps[n].appId, "pool", t) : n \in {k \in PolledApps(ws) : cfg.checkPools}}

Trace(poll, source, issued, emitted) ==
    [poll |-> poll, source |-> source, issued |-> issued, emitted |-> emitted,
     settled |-> NoSettle]

\* The trace of a step in which the backend request of a check returned.
SettleTrace(task, ok, emitted) ==
    [Trace("none", "none", 0, emitted) EXCEPT
        !.settled = [app |-> task.app, check |-> task.check, ok |-> ok]]

PollGuardMissing(flag) == FALSE

\* `if (this.isPolling) return`
PollGuard(flag) == flag

\* poll(), up to the point where it returns or waits for its checks.
Poll(source, cfg) ==
    IF PollGuard(isPolling)
    THEN [isPolling |-> isPolling, running |-> running,
          trace |-> Trace("skipped", source, 0, {})]
    ELSE IF ~workspace.present
    THEN [isPolling |-> FALSE, running |-> running, trace |-> Trace("ran", source, 0, {})]
    ELSE LET tasks == Tasks(workspace, cfg, now)
             emitted == IF cfg.checkCollisions THEN CollisionUpdates(workspace) ELSE {}
         IN  IF tasks = {}
             THEN [isPolling |-> FALSE, running |-> running,
                   trace |-> Trace("ran", source, 0, emitted)]
             ELSE [isPolling |-> TRUE, running |-> Append(running, tasks),
                   trace |-> Trace("ran", source, Cardinality(tasks), emitted)]

SettledDropsCycle(c, task) ==
    [n \in 1 .. Len(running) - 1 |-> IF n < c THEN running[n] ELSE running[n + 1]]

\* Remove a settled check from its cycle; a cycle whose checks have all
\* settled leaves `finally` and is over.
Settled(c, task) ==
    IF running[c] = {task}
    THEN [n \in 1 .. Len(running) - 1 |-> IF n < c THEN running[n] ELSE running[n + 1]]
    ELSE [running EXCEPT ![c] = @ \ {task}]

FinallyKeepsGuard(c, task, flag) == flag

\* `finally { this.isPolling = false }`, reached when the last check of the
\* cycle has settled.
Finally(c, task, flag) == IF running[c] = {task} THEN FALSE ELSE flag

PoolId == 7

\* The pool membership the backend holds: B is in a pool.
Pools == {[NoPools EXCEPT !["B"] = PoolId]}

\* What the backend may hold while the service polls: nothing consumed, or
\* one of Consumptions.
PollConsumptions == Consumptions \cup {[a \in AppIds |-> [t \in ObjectTypes |-> {}]]}

\* The workspaces polled: those of Workspaces with at most two apps to
\* poll, the third app, if any, among them and with ranges.
PollWorkspaces ==
    {ws \in Workspaces :
        /\ Cardinality(PolledApps(ws)) <= 2
        /\ Len(ws.apps) = 3 => (ws.apps[3].hasRanges /\ Polled(ws.apps[3]))}

PollingInit ==
    /\ IdleRetry
    /\ IdleClassify
    /\ IdleBackend
    /\ workspace \in PollWorkspaces
    /\ consumed \in PollConsumptions
    /\ consumptionCache = [a \in AppIds |-> [t \in ObjectTypes |-> NoEntry]]
    /\ now = 0
    /\ horizon = 0
    /\ check = IdleCheck
    /\ lastFetch = NoFetch
    /\ servedAt = [a \in AppIds |-> [t \in ObjectTypes |-> Undefined]]
    /\ events = {}
    /\ IdlePollingService
    /\ pools \in Pools
    /\ IdleRequest
    /\ IdleAssign
    /\ IdlePersistence

notPolling == <<retryVars, classifyVars, backendVars, collisionVars, pools, requestVars,
               assignVars, persistVars>>

stopKeepsTimer(timer, n) == n

\* stop(): `if (this.pollingTimer) clearInterval(this.pollingTimer)`; the
\* number of interval timers left armed.
stop(timer, n) == IF timer THEN n - 1 ELSE n

\* start(config)
Start ==
    \E partial \in StartConfigs :
        LET cfg == Merge(config, partial)
            left == stop(pollingTimer, timers)
            p == Poll("start", cfg)
        IN  /\ Len(running) < MaxCycles
            /\ config' = cfg
            /\ IF ~cfg.enabled
               THEN /\ pollingTimer' = FALSE
                    /\ timers' = left
                    /\ pollTrace' = NoTrace
                    /\ UNCHANGED <<isPolling, running>>
               ELSE /\ pollingTimer' = TRUE
                    /\ timers' = left + 1
                    /\ isPolling' = p.isPolling
                    /\ running' = p.running
                    /\ pollTrace' = p.trace
            /\ UNCHANGED <<lastPollTime, notPolling>>

\* stop()
Stop ==
    /\ pollingTimer' = FALSE
    /\ timers' = stop(pollingTimer, timers)
    /\ pollTrace' = NoTrace
    /\ UNCHANGED <<config, isPolling, running, lastPollTime, notPolling>>

\* An armed interval timer fires: poll().
TimerFires ==
    /\ timers > 0
    /\ Len(running) < MaxCycles
    /\ LET p == Poll("timer", config)
       IN  /\ isPolling' = p.isPolling
           /\ running' = p.running
           /\ pollTrace' = p.trace
    /\ UNCHANGED <<config, pollingTimer, timers, lastPollTime, notPolling>>

\* pollNow()
PollNow ==
    /\ Len(running) < MaxCycles
    /\ LET p == Poll("pollNow", config)
       IN  /\ isPolling' = p.isPolling
           /\ running' = p.running
           /\ pollTrace' = p.trace
    /\ UNCHANGED <<config, pollingTimer, timers, lastPollTime, notPolling>>

\* The kinds whose count checkConsumptionUpdates reports: those with IDs
\* consumed whose number differs from the count recorded.
Changed(info, recorded) ==
    {t \in ObjectTypes : Cardinality(info[t]) > 0 /\ Cardinality(info[t]) # recorded[t]}

\* getConsumption of a cycle's checkConsumptionUpdates returns, the
\* consumption or undefined.
ConsumptionSettles ==
    \E c \in 1 .. Len(running) : \E task \in running[c] : \E ok \in BOOLEAN :
        LET info == consumed[task.app]
            recorded == lastPollTime[task.app].counts
            changed == IF ok THEN Changed(info, recorded) ELSE {}
        IN  /\ task.check = "consumption"
            /\ lastPollTime' = [lastPollTime EXCEPT
                   ![task.app].counts = [t \in ObjectTypes |->
                       IF t \in changed THEN Cardinality(info[t]) ELSE @[t]],
                   ![task.app].polled = task.at]
            /\ pollTrace' = SettleTrace(task, ok,
                   {UpdateEvent("consumption", task.app, t, Cardinality(info[t]),
                                recorded[t]) : t \in changed})
            /\ running' = Settled(c, task)
            /\ isPolling' = Finally(c, task, isPolling)
            /\ UNCHANGED <<config, pollingTimer, timers, notPolling>>

\* What checkApp resolves with: hasPool is false when the request
\* succeeded and absent when it failed.
CheckAppResult(ok) == [managed |-> ok, hasPool |-> FALSE, poolId |-> Undefined]

\* checkApp of a cycle's checkPoolUpdates returns.
PoolSettles ==
    \E c \in 1 .. Len(running) : \E task \in running[c] : \E ok \in BOOLEAN :
        LET checkResult == CheckAppResult(ok)
            differs == /\ checkResult.hasPool
                       /\ TruthyNum(checkResult.poolId)
                       /\ lastPollTime[task.app].pool # checkResult.poolId
        IN  /\ task.check = "pool"
            /\ lastPollTime' = IF differs
                   THEN [lastPollTime EXCEPT ![task.app].pool = checkResult.poolId]
                   ELSE lastPollTime
            /\ pollTrace' = SettleTrace(task, ok,
                   IF differs
                   THEN {UpdateEvent("pool", task.app, "none", checkResult.poolId,
                                     lastPollTime[task.app].pool)}
                   ELSE {})
            /\ running' = Settled(c, task)
            /\ isPolling' = Finally(c, task, isPolling)
            /\ UNCHANGED <<config, pollingTimer, timers, notPolling>>

OtherInterval == 60000

\* The arguments updateConfig is called with.
UpdateConfigs ==
    {Partial({"enabled"}, [DefaultConfig EXCEPT !.enabled = TRUE]),
     Partial({"enabled"}, [DefaultConfig EXCEPT !.enabled = FALSE]),
     Partial({"interval"}, [DefaultConfig EXCEPT !.interval = OtherInterval]),
     Partial({"checkPools"}, [DefaultConfig EXCEPT !.checkPools = TRUE])}

\* updateConfig(config): merge, then start() when polling became enabled or
\* is enabled and an interval was given, stop() when it became disabled.
UpdateConfig ==
    \E partial \in UpdateConfigs :
        LET cfg == Merge(config, partial)
            restart == \/ (config.enabled # cfg.enabled /\ cfg.enabled)
                       \/ (config.enabled = cfg.enabled /\ cfg.enabled
                              /\ "interval" \in partial.has)
            p == Poll("start", cfg)
        IN  /\ Len(running) < MaxCycles
            /\ config' = cfg
            /\ IF restart
               THEN /\ pollingTimer' = TRUE
                    /\ timers' = stop(pollingTimer, timers) + 1
                    /\ isPolling' = p.isPolling
                    /\ running' = p.running
                    /\ pollTrace' = p.trace
               ELSE /\ pollingTimer' = IF config.enabled # cfg.enabled THEN FALSE
                                                                       ELSE pollingTimer
                    /\ timers' = IF config.enabled # cfg.enabled
                                 THEN stop(pollingTimer, timers) ELSE timers
                    /\ pollTrace' = NoTrace
                    /\ UNCHANGED <<isPolling, running>>
            /\ UNCHANGED <<lastPollTime, notPolling>>

\* Other clients of the backend: what the backend holds changes.
ConsumptionChanges ==
    /\ consumed' \in PollConsumptions \ {consumed}
    /\ pollTrace' = NoTrace
    /\ UNCHANGED <<config, pollingTimer, timers, isPolling, running, lastPollTime, pools,
                   workspace, consumptionCache, now, horizon, check, lastFetch, servedAt,
                   events, retryVars, classifyVars, backendVars, requestVars, assignVars, persistVars>>

PollingNext ==
    \/ ConsumptionChanges
    \/ Start
    \/ Stop
    \/ UpdateConfig
    \/ TimerFires
    \/ PollNow
    \/ ConsumptionSettles
    \/ PoolSettles

SpecPolling == PollingInit /\ [][PollingNext]_vars

\* The service when every backend request eventually completes: a check that
\* waits for getConsumption or checkApp eventually settles.
SpecPollingLive ==
    /\ PollingInit
    /\ [][PollingNext]_vars
    /\ WF_vars(ConsumptionSettles)
    /\ WF_vars(PoolSettles)

\* A step that called poll().
C10_Triggered == pollTrace'.source # "none"

\* C10: a poll triggered (by start, by the timer, by pollNow) while a cycle
\* has not finished is skipped: it issues no backend request, emits no
\* event, and leaves the cycles in flight and the guard as they were, so
\* nothing is left to run on its behalf; and never is more than one cycle
\* in flight.
C10_OverlappingPollSkipped ==
    /\ [](Len(running) <= 1)
    /\ [][(C10_Triggered /\ running # <<>>) =>
              /\ pollTrace'.poll = "skipped"
              /\ pollTrace'.issued = 0
              /\ pollTrace'.emitted = {}
              /\ running' = running
              /\ isPolling' = isPolling
              /\ lastPollTime' = lastPollTime]_vars

C10_Witness ==
    /\ pollTrace.poll = "skipped"
    /\ pollTrace.source = "pollNow"
    /\ Len(running) = 1
    /\ running[1] # {}

\* C11: a start that leaves polling enabled ends with exactly one interval
\* timer armed and poll() called once; stop, and a start that leaves polling
\* disabled, end with no timer armed, whatever the state before; and never
\* is more than one interval timer armed.
C11_StartedEnabled == Start /\ config'.enabled

C11_Stopped == Stop \/ (Start /\ ~config'.enabled)

C11_RunningOrStopped ==
    /\ [](timers <= 1 /\ (pollingTimer <=> timers = 1))
    /\ [][C11_StartedEnabled =>
              /\ timers' = 1
              /\ pollingTimer'
              /\ pollTrace'.source = "start"
              /\ pollTrace'.poll \in {"ran", "skipped"}]_vars
    /\ [][C11_Stopped => (timers' = 0 /\ ~pollingTimer')]_vars

C11_Witness ==
    /\ timers = 1
    /\ pollingTimer
    /\ config.enabled
    /\ config.interval = OtherInterval
    /\ pollTrace.source = "start"
    /\ pollTrace.poll = "skipped"

\* A step in which a cycle began to wait for its checks.
C12_CycleBegan == pollTrace'.poll = "ran" /\ Len(running') > Len(running)

\* A step in which the backend request of a check failed.
C12_CheckFailed == pollTrace'.settled.check # "none" /\ ~pollTrace'.settled.ok

\* C12: a cycle starts the enabled backend checks of every authorized
\* project before it waits, and when the check of one project fails, every
\* other check of the cycle is still in flight and the cycle still open, so
\* each of them runs to its own completion.
C12_FailureLeavesOtherChecks ==
    /\ [][C12_CycleBegan =>
              \A n \in 1 .. Len(workspace.apps) :
                  (workspace.apps[n].isAuthorized /\ workspace.apps[n].authKey # NoCode) =>
                      /\ config'.checkConsumption =>
                            \E task \in running'[Len(running')] :
                                task.app = workspace.apps[n].appId /\ task.check = "consumption"
                      /\ config'.checkPools =>
                            \E task \in running'[Len(running')] :
                                task.app = workspace.apps[n].appId /\ task.check = "pool"]_vars
    /\ [][C12_CheckFailed =>
              \A c \in 1 .. Len(running) : \A task \in running[c] :
                  (task.app # pollTrace'.settled.app \/ task.check # pollTrace'.settled.check) =>
                      /\ isPolling'
                      /\ \E d \in 1 .. Len(running') : task \in running'[d]]_vars

C12_Witness ==
    /\ pollTrace.settled = [app |-> "A", check |-> "consumption", ok |-> FALSE]
    /\ isPolling
    /\ Len(running) = 1
    /\ \E task \in running[1] : task.app = "B" /\ task.check = "consumption"

\* C13: in every cycle with consumption checking enabled, for each
\* authorized project whose consumption was fetched and each tracked kind, a
\* consumption event is emitted if and only if the observed count differs
\* from the recorded one, and the recorded count becomes the observed one.
C13_EventIffCountDiffers ==
    [][(pollTrace'.settled.check = "consumption" /\ pollTrace'.settled.ok) =>
          \A t \in ObjectTypes :
              LET app == pollTrace'.settled.app
                  observed == Cardinality(consumed[app][t])
                  recorded == lastPollTime[app].counts[t]
              IN  /\ (\E e \in pollTrace'.emitted :
                         e.type = "consumption" /\ e.appId = app /\ e.objectType = t)
                        <=> observed # recorded
                  /\ lastPollTime'[app].counts[t] = observed]_vars

\* C14: in every cycle with pool checking enabled, a pool event is emitted
\* for an authorized project whenever the pool identifier the backend holds
\* for it differs from the one last observed.
C14_PoolEventWhenPoolDiffers ==
    [][(/\ pollTrace'.settled.check = "pool"
        /\ pollTrace'.settled.ok
        /\ pools[pollTrace'.settled.app] # lastPollTime[pollTrace'.settled.app].pool) =>
          \E e \in pollTrace'.emitted :
              e.type = "pool" /\ e.appId = pollTrace'.settled.app]_vars

(***************************************************************************)
(* BackendService.getNext and syncIds: the request handed to sendRequest.  *)
(***************************************************************************)
\* The declared ranges of the requests: two disjoint, two overlapping, one,
\* none.
RequestRanges ==
    {<<Range(50000, 59999), Range(60000, 69999)>>,
     <<Range(50000, 59999), Range(55000, 65000)>>,
     <<Range(50000, 50099)>>,
     <<>>}

\* request.require: absent, zero, or an ID below, at the ends of, inside and
\* above the declared ranges.
Requires == {Undefined, 0, 49999, 50000, 55000, 59999, 65000, 99999}

GetNextCalls ==
    {[op |-> "getNext", commit |-> commit, perRange |-> perRange, require |-> require,
      ranges |-> ranges, merge |-> FALSE] :
        commit \in BOOLEAN, perRange \in BOOLEAN, require \in Requires,
        ranges \in RequestRanges}

\* request.merge of syncIds: true, false, or absent (which reads as false).
SyncIdsCalls ==
    {[op |-> "syncIds", commit |-> FALSE, perRange |-> FALSE, require |-> Undefined,
      ranges |-> <<>>, merge |-> merge] : merge \in BOOLEAN}

limitRangesLast(ranges, require) ==
    LET containing == SelectSeq(ranges, LAMBDA r : require >= r.from /\ require <= r.to)
    IN  IF containing = <<>> THEN <<>> ELSE <<containing[Len(containing)]>>

\* limitRanges: the first range that contains the required ID, else none.
limitRanges(ranges, require) ==
    LET containing == SelectSeq(ranges, LAMBDA r : require >= r.from /\ require <= r.to)
    IN  IF containing = <<>> THEN <<>> ELSE <<Head(containing)>>

\* getNext(request, commit): `{ ...request, ranges }` to /api/v2/getNext.
GetNextRequest(r) ==
    [op |-> "getNext", path |-> "/api/v2/getNext",
     method |-> IF r.commit THEN "POST" ELSE "GET",
     ranges |-> IF r.commit /\ r.perRange /\ TruthyNum(r.require)
                THEN limitRanges(r.ranges, r.require) ELSE r.ranges]

SyncMethodSwapped(merge) == IF merge THEN "POST" ELSE "PATCH"

\* `request.merge ? 'PATCH' : 'POST'`
SyncMethod(merge) == IF merge THEN "PATCH" ELSE "POST"

\* syncIds(request)
SyncIdsRequest(r) ==
    [op |-> "syncIds", path |-> "/api/v2/syncIds", method |-> SyncMethod(r.merge),
     ranges |-> <<>>]

RequestInit ==
    /\ IdleRetry
    /\ IdleClassify
    /\ IdleBackend
    /\ IdleCollision
    /\ IdlePolling
    /\ req \in GetNextCalls \cup SyncIdsCalls
    /\ built = NoBuilt
    /\ IdleAssign
    /\ IdlePersistence

notRequest == <<retryVars, classifyVars, backendVars, collisionVars, pollVars, assignVars, persistVars>>

\* getNext builds its request.
BuildGetNext ==
    /\ built = NoBuilt
    /\ req.op = "getNext"
    /\ built' = GetNextRequest(req)
    /\ UNCHANGED <<req, notRequest>>

\* syncIds builds its request.
BuildSyncIds ==
    /\ built = NoBuilt
    /\ req.op = "syncIds"
    /\ built' = SyncIdsRequest(req)
    /\ UNCHANGED <<req, notRequest>>

RequestNext ==
    \/ BuildGetNext
    \/ BuildSyncIds

SpecRequest == RequestInit /\ [][RequestNext]_vars

\* The declared ranges of the call that contain the required ID.
C19_Containing ==
    SelectSeq(req.ranges, LAMBDA r : r.from <= req.require /\ req.require <= r.to)

\* C19 (as stated): whenever both require and perRange are set, the ranges
\* sent are the declared ranges that contain the required ID, a single one
\* or none; in every other request the declared ranges are sent unchanged.
C19_NarrowedWhenRequireAndPerRange ==
    built.op = "getNext" =>
        IF req.perRange /\ req.require # Undefined
        THEN built.ranges = C19_Containing /\ Len(built.ranges) <= 1
        ELSE built.ranges = req.ranges

\* C19 (amended): when the call commits and perRange and a non-zero require
\* are set, the ranges sent are the first declared range that contains the
\* required ID, or none if no declared range contains it; in every other
\* request, a query without commit included, the declared ranges are sent
\* unchanged.
C19_NarrowedOnlyOnCommit ==
    built.op = "getNext" =>
        IF req.commit /\ req.perRange /\ req.require # Undefined /\ req.require # 0
        THEN built.ranges = IF C19_Containing = <<>> THEN <<>>
                            ELSE <<C19_Containing[1]>>
        ELSE built.ranges = req.ranges

C19_Witness ==
    /\ built.op = "getNext"
    /\ req.commit /\ req.perRange /\ req.require = 55000
    /\ req.ranges = <<Range(50000, 59999), Range(55000, 65000)>>
    /\ built.ranges = <<Range(50000, 59999)>>

\* C20: syncIds sends to /api/v2/syncIds in both modes, with PATCH exactly
\* when merge is true and POST when it is false or absent.
C20_SamePathMethodByMerge ==
    built.op = "syncIds" =>
        /\ built.path = "/api/v2/syncIds"
        /\ req.merge => built.method = "PATCH"
        /\ ~req.merge => built.method = "POST"

C20_Witness ==
    /\ built.op = "syncIds"
    /\ req.merge
    /\ built.method = "PATCH"

(***************************************************************************)
(* ConfigPersistence.scheduleSave, which ends every debounced mutation of  *)
(* the persisted document.                                                 *)
(***************************************************************************)
\* `}, 1000); // Save after 1 second of inactivity`
SaveDelay == 1000

scheduleSaveKeepsTimer(timer, t) == IF timer # Undefined THEN timer ELSE t + SaveDelay

\* scheduleSave() at time t: the timeout armed before is cleared and a new
\* one is armed; when it is due.
scheduleSave(timer, t) == t + SaveDelay

\* What a step that mutated the document and called scheduleSave leaves in
\* `saved`: the time of the mutation and how many mutations (one, or two and
\* more) no write has followed.
Mutated(s, t) ==
    [NoSave EXCEPT !.step = "mutated", !.lastMutation = t,
                   !.burst = IF s.attempts = 0 THEN Min(s.burst + 1, 2) ELSE 1]

\* What a step that neither mutated nor wrote leaves in `saved`.
Quiet(s) == [s EXCEPT !.step = "none", !.by = "none", !.content = NoSave.content]

(***************************************************************************)
(* The allocation tools: get-next-id, assign-ids, reserve-range and        *)
(* sync-object-ids, with AssignmentManager.assignIds step by step.         *)
(***************************************************************************)
MaxCount == 2
MaxHistory == 1

\* `5 // Suggest up to 5 alternatives`
MaxSuggestions == 5

\* `maxSuggestions * 3`
MaxAttempts == MaxSuggestions * 3

\* recordAssignment keeps the last 100 entries, addAssignmentHistory the
\* last 500.
HistoryLimit == 100
PersistedLimit == 500

AllocationTools == {"get-next-id", "assign-ids", "reserve-range", "sync-object-ids"}

\* The IDs getNext may answer with.
NextIds == {50000, 50001}

\* What getNext returns: undefined, an answer that is not available, or an
\* available ID.
GetNextResults ==
    {[defined |-> FALSE, available |-> FALSE, id |-> 0],
     [defined |-> TRUE, available |-> FALSE, id |-> 0]}
        \cup {[defined |-> TRUE, available |-> TRUE, id |-> id] : id \in NextIds}

\* The app a tool is called for: authorized with a credential, authorized
\* without one, not authorized.
ToolApps ==
    {App("A", TRUE, RangesA, TRUE, "keyA"),
     App("A", TRUE, RangesA, TRUE, NoCode),
     App("A", TRUE, RangesA, FALSE, "keyA")}

\* The options of assign-ids: count absent, zero or up to MaxCount.
AssignOptions ==
    [count : {Undefined} \cup (0 .. MaxCount), checkCollisions : BOOLEAN,
     suggestAlternatives : BOOLEAN]

\* `options.count || 1`
CountOf(count) == IF TruthyNum(count) THEN count ELSE 1

\* The IDs of reserve-range (from 50010 to 50011) and of sync-object-ids.
ReservedIds == <<50010, 50011>>
SyncedIds == <<50020>>

HistoryEntry(tool, ids) == [tool |-> tool, appId |-> "A", objectType |-> "table", ids |-> ids]

Keep(history, limit) ==
    IF Len(history) > limit THEN SubSeq(history, Len(history) - limit + 1, Len(history))
    ELSE history

\* recordAssignment
recordAssignment(history, entry) == Keep(Append(history, entry), HistoryLimit)

\* addAssignmentHistory
addAssignmentHistory(history, entry) == Keep(Append(history, entry), PersistedLimit)

Answer(isError, text) == [isError |-> isError, text |-> text]

Sent(a, what) == [a EXCEPT !.sent[what] = @ + 1]

\* The end of assignIds and of handleAssignIds: success is
\* `assignedIds.length > 0`.
FinishAssign(a) ==
    [a EXCEPT !.pc = "done",
              !.answer = IF Len(a.assignedIds) > 0 THEN Answer(FALSE, "assigned")
                         ELSE Answer(TRUE, "failed to assign")]

\* What handleAssignIds adds to the persisted history when assignIds
\* returned.
PersistAssign(a, persisted) ==
    IF Len(a.assignedIds) > 0
    THEN addAssignmentHistory(persisted, HistoryEntry("assign-ids", a.assignedIds))
    ELSE persisted

\* After the sync: suggestAlternatives when there were collisions and
\* alternatives were asked for, else the end.
AfterSync(a) ==
    IF Len(a.collisions) > 0 /\ a.suggestAlternatives
    THEN Sent([a EXCEPT !.pc = "altGetNext", !.i = 0], "suggest")
    ELSE FinishAssign(a)

\* After the loop of assignIds: sync what was granted, if anything.
AfterLoop(a) ==
    IF Len(a.assignedIds) > 0
    THEN Sent([a EXCEPT !.pc = "sync", !.payload = a.assignedIds], "syncIds")
    ELSE AfterSync(a)

NextIterationOneMore(a) ==
    IF a.i < a.count
    THEN Sent([a EXCEPT !.pc = "getNext", !.i = @ + 1], "getNext")
    ELSE AfterLoop(a)

\* The next iteration of the loop of assignIds, or what follows the loop.
NextIteration(a) ==
    IF a.i + 1 < a.count
    THEN Sent([a EXCEPT !.pc = "getNext", !.i = @ + 1], "getNext")
    ELSE AfterLoop(a)

SkipsNothing(a, finding) == FALSE

\* `if (collision) { ...; if (!options.suggestAlternatives) continue; }`
Skips(a, finding) == finding /\ ~a.suggestAlternatives

\* The rest of an iteration of assignIds once the collision check, if any,
\* returned.
Granted(a, finding) ==
    LET b == [a EXCEPT !.collisions = IF finding THEN Append(@, a.id) ELSE @]
    IN  IF Skips(a, finding)
        THEN NextIteration(b)
        ELSE NextIteration([b EXCEPT !.assignedIds = Append(@, a.id)])

NextAttemptUncapped(a) ==
    IF a.i + 1 < MaxAttempts
    THEN Sent([a EXCEPT !.pc = "altGetNext", !.i = @ + 1], "suggest")
    ELSE FinishAssign(a)

\* The next attempt of suggestAlternatives, or its end.
NextAttempt(a) ==
    IF a.i + 1 < MaxAttempts /\ Len(a.suggestions) < MaxSuggestions
    THEN Sent([a EXCEPT !.pc = "altGetNext", !.i = @ + 1], "suggest")
    ELSE FinishAssign(a)

\* What handleAssignIds adds to the persisted history in a step, which is
\* nothing until assignIds has returned.
Persist(a, persisted) ==
    IF a.pc = "done" /\ a.tool = "assign-ids" THEN PersistAssign(a, persisted) ELSE persisted

UnauthorizedSaysSo(tool) == Answer(TRUE, "App is not authorized. Please authorize first.")

\* The answer for an app that is not authorized or has no credential:
\* reserveRange returns false and handleReserveRange answers as for any
\* failure; the other three answer that the app is not authorized.
Unauthorized(tool) ==
    IF tool = "reserve-range"
    THEN Answer(TRUE, "Failed to reserve range")
    ELSE Answer(TRUE, "App is not authorized. Please authorize first.")

\* The first backend call of an authorized tool call.
Begin(a) ==
    IF a.tool \in {"get-next-id", "assign-ids"}
    THEN Sent([a EXCEPT !.pc = "getNext"], "getNext")
    ELSE Sent([a EXCEPT !.pc = "sync",
                        !.payload = IF a.tool = "reserve-range" THEN ReservedIds
                                    ELSE SyncedIds], "syncIds")

\* The ID of kind table the backend holds for A before any call.
HeldId == 50002

\* What the backend holds for an app and kind once it has served a syncIds
\* request: `PATCH for merge mode (UPDATE), POST for replace mode`.
Synced(held, method, ids) ==
    IF method = "PATCH"
    THEN held \cup {ids[n] : n \in 1 .. Len(ids)}
    ELSE {ids[n] : n \in 1 .. Len(ids)}

\* `merge`, as the three callers of syncIds give it: assignIds and
\* reserveRange leave it out, handleSyncObjectIds computes it from its
\* arguments.
MergeOf(tool, merge) == tool = "sync-object-ids" /\ merge

AssignInit ==
    /\ IdleRetry
    /\ IdleClassify
    /\ IdleBackend
    /\ workspace = [present |-> FALSE, apps |-> <<>>]
    /\ consumed = [a \in AppIds |-> [t \in ObjectTypes |->
                       IF a = "A" /\ t = "table" THEN {HeldId} ELSE {}]]
    /\ consumptionCache = [a \in AppIds |-> [t \in ObjectTypes |-> NoEntry]]
    /\ now = 0
    /\ horizon = 0
    /\ check = IdleCheck
    /\ lastFetch = NoFetch
    /\ servedAt = [a \in AppIds |-> [t \in ObjectTypes |-> Undefined]]
    /\ events = {}
    /\ IdlePolling
    /\ IdleRequest
    /\ IdleAssign
    /\ IdlePersistence

notAssign == <<retryVars, classifyVars, backendVars, collisionVars, pollVars, requestVars>>

\* A tool is called: no app found, an app that may not allocate, or the
\* first backend call.
CallTool ==
    /\ assign.pc \in {"idle", "done"}
    /\ Len(assignmentHistory) < MaxHistory
    /\ Len(persistedHistory) < MaxHistory
    /\ \E tool \in AllocationTools, found \in BOOLEAN, app \in ToolApps,
          options \in AssignOptions :
          LET a == [NoAssign EXCEPT !.tool = tool,
                                    !.authorized = app.isAuthorized /\ TruthyStr(app.authKey),
                                    !.count = IF tool = "assign-ids"
                                              THEN CountOf(options.count) ELSE 0,
                                    !.checkCollisions =
                                        tool = "assign-ids" /\ options.checkCollisions,
                                    !.suggestAlternatives =
                                        tool = "assign-ids" /\ options.suggestAlternatives,
                                    !.history0 = Len(assignmentHistory),
                                    !.persisted0 = Len(persistedHistory)]
          IN  assign' = IF ~found
                        THEN [a EXCEPT !.pc = "done", !.answer = Answer(TRUE, "No AL app found")]
                        ELSE IF ~a.authorized
                        THEN [a EXCEPT !.pc = "done", !.answer = Unauthorized(tool)]
                        ELSE Begin(a)
    /\ UNCHANGED <<assignmentHistory, persistedHistory, notAssign, persistVars>>

\* getNext returns to the loop of assignIds or to handleGetNextObjectId.
GetNextReturns ==
    /\ assign.pc = "getNext"
    /\ \E r \in GetNextResults :
          LET usable == r.defined /\ r.available
              a == [assign EXCEPT !.id = r.id]
              next == IF assign.tool = "assign-ids"
                      THEN IF ~usable THEN AfterLoop(assign)
                           ELSE IF assign.checkCollisions
                           THEN [a EXCEPT !.pc = "check"]
                           ELSE Granted(a, FALSE)
                      ELSE IF ~usable
                           THEN [assign EXCEPT !.pc = "done",
                                               !.answer = Answer(TRUE, "No available IDs")]
                           ELSE [a EXCEPT !.pc = "check"]
          IN  /\ assign' = next
              /\ persistedHistory' = Persist(next, persistedHistory)
    \* addAssignmentHistory ends with scheduleSave().
    /\ isDirty' = (isDirty \/ persistedHistory' # persistedHistory)
    /\ saveTimer' = IF persistedHistory' # persistedHistory
                    THEN scheduleSave(saveTimer, clock) ELSE saveTimer
    /\ saved' = IF persistedHistory' # persistedHistory THEN Mutated(saved, clock) ELSE Quiet(saved)
    /\ UNCHANGED <<assignmentHistory, document, disk, clock, server, notAssign>>

\* checkCollision returns: a finding or none.
CollisionChecked ==
    /\ assign.pc = "check"
    /\ \E finding \in BOOLEAN :
          LET next == IF assign.tool = "assign-ids"
                      THEN Granted(assign, finding)
                      ELSE [assign EXCEPT !.pc = "done",
                                          !.collisions = IF finding THEN <<assign.id>> ELSE <<>>,
                                          !.answer = Answer(FALSE, "Next available ID")]
          IN  /\ assign' = next
              /\ persistedHistory' = Persist(next, persistedHistory)
    \* addAssignmentHistory ends with scheduleSave().
    /\ isDirty' = (isDirty \/ persistedHistory' # persistedHistory)
    /\ saveTimer' = IF persistedHistory' # persistedHistory
                    THEN scheduleSave(saveTimer, clock) ELSE saveTimer
    /\ saved' = IF persistedHistory' # persistedHistory THEN Mutated(saved, clock) ELSE Quiet(saved)
    /\ UNCHANGED <<assignmentHistory, document, disk, clock, server, notAssign>>

\* syncIds returns true or false.
SyncReturns ==
    /\ assign.pc = "sync"
    /\ \E ok \in BOOLEAN, merge \in BOOLEAN :
          LET a == [assign EXCEPT !.synced = IF ok THEN "ok" ELSE "failed",
                                  !.merge = MergeOf(assign.tool, merge)]
              ids == CASE assign.tool = "assign-ids" -> assign.assignedIds
                       [] assign.tool = "reserve-range" -> ReservedIds
                       [] OTHER -> SyncedIds
              next == CASE assign.tool = "assign-ids" ->
                             AfterSync([a EXCEPT !.emitted = IF ok THEN {"assignment"} ELSE {}])
                        [] assign.tool = "reserve-range" ->
                             [a EXCEPT !.pc = "done",
                                       !.emitted = IF ok THEN {"rangeReserved"} ELSE {},
                                       !.answer = IF ok THEN Answer(FALSE, "Reserved")
                                                  ELSE Answer(TRUE, "Failed to reserve range")]
                        [] OTHER ->
                             [a EXCEPT !.pc = "done",
                                       !.answer = IF ok THEN Answer(FALSE, "Synced")
                                                  ELSE Answer(TRUE, "Failed to sync object IDs")]
          IN  /\ assign' = next
              /\ assignmentHistory' =
                     IF ok /\ assign.tool \in {"assign-ids", "reserve-range"}
                     THEN recordAssignment(assignmentHistory, HistoryEntry(assign.tool, ids))
                     ELSE assignmentHistory
              /\ persistedHistory' =
                     IF assign.tool = "sync-object-ids"
                     THEN IF ok THEN addAssignmentHistory(persistedHistory,
                                                          HistoryEntry(assign.tool, ids))
                          ELSE persistedHistory
                     ELSE Persist(next, persistedHistory)
              \* The backend served the request: it holds what the request
              \* says.
              /\ consumed' =
                     IF ok
                     THEN [consumed EXCEPT !["A"]["table"] =
                              Synced(@, SyncMethod(a.merge), assign.payload)]
                     ELSE consumed
    \* addAssignmentHistory ends with scheduleSave().
    /\ isDirty' = (isDirty \/ persistedHistory' # persistedHistory)
    /\ saveTimer' = IF persistedHistory' # persistedHistory
                    THEN scheduleSave(saveTimer, clock) ELSE saveTimer
    /\ saved' = IF persistedHistory' # persistedHistory THEN Mutated(saved, clock) ELSE Quiet(saved)
    /\ UNCHANGED <<document, disk, clock, server, retryVars, classifyVars, backendVars,
                   workspace, consumptionCache, now, horizon, check, lastFetch, servedAt,
                   events, pollVars, requestVars>>

\* getNext returns to suggestAlternatives.
SuggestGetNextReturns ==
    /\ assign.pc = "altGetNext"
    /\ \E r \in GetNextResults :
          LET excluded == \E n \in 1 .. Len(assign.collisions) : assign.collisions[n] = r.id
              next == IF ~(r.defined /\ r.available) \/ excluded
                      THEN NextAttempt(assign)
                      ELSE [assign EXCEPT !.pc = "altCheck", !.id = r.id]
          IN  /\ assign' = next
              /\ persistedHistory' = Persist(next, persistedHistory)
    \* addAssignmentHistory ends with scheduleSave().
    /\ isDirty' = (isDirty \/ persistedHistory' # persistedHistory)
    /\ saveTimer' = IF persistedHistory' # persistedHistory
                    THEN scheduleSave(saveTimer, clock) ELSE saveTimer
    /\ saved' = IF persistedHistory' # persistedHistory THEN Mutated(saved, clock) ELSE Quiet(saved)
    /\ UNCHANGED <<assignmentHistory, document, disk, clock, server, notAssign>>

\* checkCollision returns to suggestAlternatives.
SuggestCollisionChecked ==
    /\ assign.pc = "altCheck"
    /\ \E finding \in BOOLEAN :
          LET next == NextAttempt(IF finding THEN assign
                                  ELSE [assign EXCEPT !.suggestions = Append(@, assign.id)])
          IN  /\ assign' = next
              /\ persistedHistory' = Persist(next, persistedHistory)
    \* addAssignmentHistory ends with scheduleSave().
    /\ isDirty' = (isDirty \/ persistedHistory' # persistedHistory)
    /\ saveTimer' = IF persistedHistory' # persistedHistory
                    THEN scheduleSave(saveTimer, clock) ELSE saveTimer
    /\ saved' = IF persistedHistory' # persistedHistory THEN Mutated(saved, clock) ELSE Quiet(saved)
    /\ UNCHANGED <<assignmentHistory, document, disk, clock, server, notAssign>>

AssignNext ==
    \/ CallTool
    \/ GetNextReturns
    \/ CollisionChecked
    \/ SyncReturns
    \/ SuggestGetNextReturns
    \/ SuggestCollisionChecked

SpecAssign == AssignInit /\ [][AssignNext]_vars

\* A call of assign-ids that has returned.
C15_Returned == assign.pc = "done" /\ assign.tool = "assign-ids" /\ assign.authorized

\* C15: an assign-ids call appends an entry to the in-memory history,
\* appends an entry to the persisted history and emits the assignment event
\* if and only if the backend sync of the granted IDs succeeded.
C15_RecordedIffSynced ==
    C15_Returned =>
        /\ Len(assignmentHistory) = assign.history0 + 1 <=> assign.synced = "ok"
        /\ Len(persistedHistory) = assign.persisted0 + 1 <=> assign.synced = "ok"
        /\ "assignment" \in assign.emitted <=> assign.synced = "ok"

\* A step in which the collision check of assign-ids returned a finding for
\* the ID just granted by the backend.
C16_Finding ==
    /\ assign.pc = "check"
    /\ assign.tool = "assign-ids"
    /\ Len(assign'.collisions) = Len(assign.collisions) + 1

C17_SuggestionsBounded ==
    /\ assign.sent.suggest <= 3 * 5
    /\ Len(assign.suggestions) <= 5
    /\ \A n \in 1 .. Len(assign.suggestions) : \A k \in 1 .. Len(assign.collisions) :
          assign.suggestions[n] # assign.collisions[k]
    /\ assign.sent.suggest > 0 => (assign.collisions # <<>> /\ assign.suggestAlternatives)

C17_Witness ==
    /\ assign.pc = "done"
    /\ assign.sent.suggest = 15
    /\ Len(assign.suggestions) = 5
    /\ assign.collisions = <<50000>>

\* A tool call for an app that was found and is not authorized or holds no
\* credential.
C18_Unauthorized ==
    /\ assign.tool \in {"get-next-id", "assign-ids", "reserve-range", "sync-object-ids"}
    /\ ~assign.authorized
    /\ assign.answer.text # "No AL app found"

C18_NoRequest ==
    /\ assign.pc = "done"
    /\ assign.sent = [getNext |-> 0, syncIds |-> 0, suggest |-> 0]
    /\ assign.synced = "none"
    /\ assign.emitted = {}
    /\ Len(assignmentHistory) = assign.history0
    /\ Len(persistedHistory) = assign.persisted0
    /\ assign.answer.isError

\* C18 (as stated): an allocation tool called for such an app issues no
\* backend request and at once returns a 'not authorized' failure.
C18_NotAuthorizedFailure ==
    C18_Unauthorized =>
        /\ C18_NoRequest
        /\ assign.answer.text = "App is not authorized. Please authorize first."

\* C18 (amended): an allocation tool called for such an app issues no
\* backend request, records and emits nothing, and at once returns a
\* failure: 'App is not authorized. Please authorize first.' from
\* get-next-id, assign-ids and sync-object-ids, the generic 'Failed to
\* reserve range' from reserve-range.
C18_FailsWithoutRequest ==
    C18_Unauthorized =>
        /\ C18_NoRequest
        /\ assign.tool # "reserve-range" =>
              assign.answer.text = "App is not authorized. Please authorize first."
        /\ assign.tool = "reserve-range" => assign.answer.text = "Failed to reserve range"

C18_Witness ==
    /\ C18_Unauthorized
    /\ assign.tool = "reserve-range"
    /\ assign.pc = "done"
    /\ assign.answer = [isError |-> TRUE, text |-> "Failed to reserve range"]


(***************************************************************************)
(* The persisted document: ConfigPersistence, the tools that mutate it,    *)
(* the signals that end the server process, and its start-up.              *)
(***************************************************************************)
ClockStep == 500
MaxClock == 1500
MaxCalls == 2

\* The versions that compare below '1.0.0'.
OldVersions == {"0.9.0"}

\* needsMigration: `!config.version || config.version < '1.0.0'`
needsMigration(doc) == ~TruthyStr(doc.version) \/ doc.version \in OldVersions

\* migrateConfig(oldConfig) at time t: fresh defaults, workspaces taken
\* over, polling, assignments and preferences assigned over the defaults;
\* anything else of the old document is left behind.
migrateConfig(file, t) ==
    File("json",
         [getDefaultConfig(t) EXCEPT
            !.workspaces = file.doc.workspaces,
            !.polling = Section(DOMAIN DefaultConfig, Merge(DefaultConfig, file.doc.polling)),
            !.preferences = Section(DOMAIN DefaultPreferences,
                                    Merge(DefaultPreferences, file.doc.preferences))],
         file.history, file.writable)

\* Inside the try of loadConfig: JSON.parse throws on text that is not
\* JSON, needsMigration throws on null.
ParseThrows(file) == file.kind \in {"malformed", "null"}

\* What the try of loadConfig returns when nothing throws; a missing file
\* falls through to the defaults.
Parsed(file, t) ==
    IF file.kind = "missing" \/ ParseThrows(file)
    THEN File("json", getDefaultConfig(t), <<>>, file.writable)
    ELSE IF needsMigration(file.doc) THEN migrateConfig(file, t) ELSE file

loadConfigWithoutCatch(file, t) == [threw |-> ParseThrows(file), file |-> Parsed(file, t)]

\* loadConfig() at time t: whatever the try throws is caught and logged,
\* and the defaults are returned.
loadConfig(file, t) == [threw |-> FALSE, file |-> Parsed(file, t)]

RestoredAlways(polling) == TRUE

\* restoreConfiguration(): `if (pollingConfig.enabled)`
Restored(polling) == "enabled" \in polling.has /\ polling.val.enabled

\* No saveConfig call.
NoWrite(doc, file, dirty) ==
    [attempted |-> FALSE, ok |-> FALSE, document |-> doc, content |-> NoSave.content,
     disk |-> file, isDirty |-> dirty]

\* saveConfig() at time t: lastUpdated is set and the whole document is
\* handed to writeFileSync; a write that throws is logged and leaves the
\* file and isDirty as they were.
saveConfig(doc, history, file, dirty, t) ==
    LET stamped == [doc EXCEPT !.lastUpdated = t]
        content == File("json", stamped, history, file.writable)
    IN  [attempted |-> TRUE, ok |-> file.writable, document |-> stamped, content |-> content,
         disk |-> IF file.writable THEN content ELSE file,
         isDirty |-> IF file.writable THEN FALSE ELSE dirty]

\* What a step that called saveConfig or not leaves in `saved`.
Wrote(by, w, s) ==
    IF w.attempted
    THEN [step |-> IF w.ok THEN "written" ELSE "failed", by |-> by,
          lastMutation |-> s.lastMutation, burst |-> s.burst,
          attempts |-> Min(s.attempts + 1, 2),
          content |-> w.content]
    ELSE Quiet(s)

\* The polling tool call a successful write has put on disk.
Flushed(w, asked) == [asked EXCEPT !.flushed = @ \/ w.ok]

\* The polling tool call left when the process ends: one that was never
\* written is gone with the process.
Kept(asked) == IF asked.flushed THEN asked ELSE NoAsk

\* The arguments of start-polling: the fields given and their values.
StartPollingArgs ==
    LET none == [interval |-> 0, consumption |-> TRUE, collisions |-> TRUE, pools |-> FALSE]
    IN  {Section({}, none),
         Section({"interval", "pools"}, [none EXCEPT !.interval = OtherInterval, !.pools = TRUE]),
         Section({"interval", "collisions"}, [none EXCEPT !.collisions = FALSE])}

\* The config handleStartPolling builds: `args.interval || 30000`,
\* `features?.consumption !== false`, `features?.pools || false`.
startPollingConfig(args) ==
    [enabled |-> TRUE,
     interval |-> IF "interval" \in args.has /\ TruthyNum(args.val.interval)
                  THEN args.val.interval ELSE DefaultInterval,
     checkConsumption |-> ~("consumption" \in args.has /\ ~args.val.consumption),
     checkCollisions |-> ~("collisions" \in args.has /\ ~args.val.collisions),
     checkPools |-> "pools" \in args.has /\ args.val.pools]

\* An imported history of n entries.
LongHistory(n) == [i \in 1 .. n |-> HistoryEntry("imported", <<i>>)]

\* Documents of an older version, without a version, and of the current
\* version.
OldDocument ==
    [version |-> "0.9.0", lastUpdated |-> 0,
     workspaces |-> [saved |-> TRUE, authKey |-> "keyA", lastAuthorized |-> TRUE],
     polling |-> Section({"enabled", "interval"},
                         [DefaultConfig EXCEPT !.enabled = TRUE, !.interval = OtherInterval]),
     preferences |-> Section({"logLevel"}, [DefaultPreferences EXCEPT !.logLevel = "debug"]),
     extra |-> TRUE]

UnversionedDocument ==
    [version |-> NoCode, lastUpdated |-> 0, workspaces |-> NoWorkspaces,
     polling |-> Section({}, DefaultConfig),
     preferences |-> Section({}, DefaultPreferences), extra |-> FALSE]

CurrentDocument ==
    [getDefaultConfig(0) EXCEPT
        !.polling = Section(DOMAIN DefaultConfig,
                            [DefaultConfig EXCEPT !.enabled = TRUE, !.checkPools = TRUE])]

\* What the configuration file may hold when the server starts.
DiskFiles ==
    {File(kind, getDefaultConfig(0), <<>>, TRUE) : kind \in {"missing", "malformed", "null"}}
        \cup {File("json", OldDocument, LongHistory(1), TRUE),
              File("json", UnversionedDocument, <<>>, TRUE),
              File("json", CurrentDocument, <<>>, TRUE),
              File("json", CurrentDocument, <<>>, FALSE)}

\* The texts import-config is called with.
ImportTexts ==
    {File("malformed", getDefaultConfig(0), <<>>, TRUE),
     File("json", UnversionedDocument, <<>>, TRUE),
     File("json", OldDocument, LongHistory(1), TRUE),
     File("json", CurrentDocument, LongHistory(PersistedLimit + 1), TRUE),
     File("json", getDefaultConfig(0), <<>>, TRUE)}

\* What authorizeApp comes back with: an authKey of the backend, an answer
\* without one, or the request failed and it threw.
AuthorizeResults == {"keyB", NoCode, "thrown"}

\* args.authKey of authorize-app.
AuthKeyArgs == {"keyA"}

\* What a start of the server process at time t makes of the file.
PersistInit ==
    /\ IdleRetry
    /\ IdleClassify
    /\ IdleBackend
    /\ IdleCollision
    /\ IdleRequest
    /\ assign = NoAssign
    /\ assignmentHistory = <<>>
    /\ disk \in DiskFiles
    /\ clock = 0
    /\ LET l == loadConfig(disk, 0)
           polling == l.file.doc.polling
       IN  /\ document = l.file.doc
           /\ persistedHistory = l.file.history
           /\ config = IF Restored(polling) THEN Merge(DefaultConfig, polling)
                                            ELSE DefaultConfig
           /\ pollingTimer = Restored(polling)
           /\ timers = IF Restored(polling) THEN 1 ELSE 0
           /\ pollTrace = IF Restored(polling) THEN Trace("ran", "start", 0, {}) ELSE NoTrace
           /\ server = [NoServer EXCEPT !.threw = l.threw]
    /\ isPolling = FALSE
    /\ running = <<>>
    /\ lastPollTime = [a \in AppIds |->
            [polled |-> Undefined, counts |-> [t \in ObjectTypes |-> 0],
             pool |-> Undefined]]
    /\ pools = NoPools
    /\ isDirty = FALSE
    /\ saveTimer = Undefined
    /\ saved = NoSave

notPersist == <<retryVars, classifyVars, backendVars, collisionVars, requestVars, assign,
                assignmentHistory, lastPollTime, pools>>

\* The server process starts: the constructors of ConfigPersistence
\* (loadConfig) and PollingService, then restoreConfiguration().
ProcessStarts ==
    /\ server.phase = "exited"
    /\ LET l == loadConfig(disk, clock)
           polling == l.file.doc.polling
           cfg == IF Restored(polling) THEN Merge(DefaultConfig, polling) ELSE DefaultConfig
       IN  /\ document' = l.file.doc
           /\ persistedHistory' = l.file.history
           /\ config' = cfg
           /\ pollingTimer' = Restored(polling)
           /\ timers' = IF Restored(polling) THEN 1 ELSE 0
           /\ pollTrace' = IF Restored(polling) THEN Poll("start", cfg).trace ELSE NoTrace
           /\ server' = [server EXCEPT !.phase = "running", !.threw = l.threw,
                                       !.tool = "none", !.app = NoApp, !.backendKey = "none"]
    /\ isDirty' = FALSE
    /\ saveTimer' = Undefined
    /\ saved' = NoSave
    /\ UNCHANGED <<disk, clock, isPolling, running, notPersist>>

\* start-polling: polling.start(config), then savePollingConfig(config).
HandleStartPolling ==
    /\ server.phase = "running"
    /\ server.calls < MaxCalls
    /\ \E args \in StartPollingArgs :
          LET cfg == startPollingConfig(args)
              p == Poll("start", cfg)
          IN  /\ config' = cfg
              /\ pollingTimer' = TRUE
              /\ timers' = stop(pollingTimer, timers) + 1
              /\ isPolling' = p.isPolling
              /\ running' = p.running
              /\ pollTrace' = p.trace
              /\ document' = [document EXCEPT !.polling = Section(DOMAIN cfg, cfg)]
              /\ server' = [server EXCEPT
                               !.calls = @ + 1, !.tool = "start-polling",
                               !.asked = [call |-> "start", config |-> cfg,
                                          flushed |-> FALSE]]
    /\ isDirty' = TRUE
    /\ saveTimer' = scheduleSave(saveTimer, clock)
    /\ saved' = Mutated(saved, clock)
    /\ UNCHANGED <<disk, clock, persistedHistory, notPersist>>

\* stop-polling: polling.stop(), then the persisted polling config is saved
\* with enabled false.
HandleStopPolling ==
    /\ server.phase = "running"
    /\ server.calls < MaxCalls
    /\ pollingTimer' = FALSE
    /\ timers' = stop(pollingTimer, timers)
    /\ pollTrace' = NoTrace
    /\ document' = [document EXCEPT
                       !.polling = Section(@.has \cup {"enabled"},
                                           [@.val EXCEPT !.enabled = FALSE])]
    /\ server' = [server EXCEPT
                     !.calls = @ + 1, !.tool = "stop-polling",
                     !.asked = [call |-> "stop", config |-> config, flushed |-> FALSE]]
    /\ isDirty' = TRUE
    /\ saveTimer' = scheduleSave(saveTimer, clock)
    /\ saved' = Mutated(saved, clock)
    /\ UNCHANGED <<disk, clock, persistedHistory, config, isPolling, running, notPersist>>

\* authorize-app: no app at the path, authorizeApp throws, or it returns
\* and `if (result)` lets updateAppAuthorization(app.path, args.authKey) and
\* saveWorkspace run.
HandleAuthorizeApp ==
    /\ server.phase = "running"
    /\ server.calls < MaxCalls
    /\ \E found \in BOOLEAN, result \in AuthorizeResults, authKey \in AuthKeyArgs :
          LET returned == found /\ result # "thrown"
          IN  /\ server' = [server EXCEPT
                               !.calls = @ + 1, !.tool = "authorize-app",
                               !.backendKey = IF found THEN result ELSE "none",
                               !.app = IF returned
                                       THEN [isAuthorized |-> TRUE, authKey |-> authKey]
                                       ELSE @]
              /\ document' = IF returned
                             THEN [document EXCEPT
                                      !.workspaces = [saved |-> TRUE, authKey |-> authKey,
                                                      lastAuthorized |-> TRUE]]
                             ELSE document
              /\ isDirty' = (isDirty \/ returned)
              /\ saveTimer' = IF returned THEN scheduleSave(saveTimer, clock) ELSE saveTimer
              /\ saved' = IF returned THEN Mutated(saved, clock) ELSE Quiet(saved)
    /\ UNCHANGED <<disk, clock, persistedHistory, config, pollingTimer, timers, isPolling,
                   running, pollTrace, notPersist>>

\* ConfigPersistence.addAssignmentHistory, as a tool that synced IDs calls
\* it.
AddAssignmentHistory ==
    /\ server.phase = "running"
    /\ server.calls < MaxCalls
    /\ persistedHistory' =
           addAssignmentHistory(persistedHistory, HistoryEntry("sync-object-ids", SyncedIds))
    /\ server' = [server EXCEPT !.calls = @ + 1, !.tool = "sync-object-ids"]
    /\ isDirty' = TRUE
    /\ saveTimer' = scheduleSave(saveTimer, clock)
    /\ saved' = Mutated(saved, clock)
    /\ UNCHANGED <<document, disk, clock, config, pollingTimer, timers, isPolling, running,
                   pollTrace, notPersist>>

\* import-config: importConfig rejects text that is not JSON or has no
\* version, migrates an old document, replaces the document and saves it at
\* once; then restoreConfiguration().
HandleImportConfig ==
    /\ server.phase = "running"
    /\ server.calls < MaxCalls
    /\ \E text \in ImportTexts :
          IF text.kind # "json" \/ ~TruthyStr(text.doc.version)
          THEN /\ server' = [server EXCEPT !.calls = @ + 1, !.tool = "import-config"]
               /\ saved' = Quiet(saved)
               /\ UNCHANGED <<document, persistedHistory, disk, isDirty, config, pollingTimer,
                              timers, isPolling, running, pollTrace>>
          ELSE LET imported == IF needsMigration(text.doc) THEN migrateConfig(text, clock)
                                                          ELSE text
                   w == saveConfig(imported.doc, imported.history, disk, isDirty, clock)
                   polling == w.document.polling
                   cfg == Merge(config, polling)
                   p == Poll("start", cfg)
               IN  /\ document' = w.document
                   /\ persistedHistory' = imported.history
                   /\ disk' = w.disk
                   /\ isDirty' = w.isDirty
                   /\ saved' = Wrote("import", w, saved)
                   /\ server' = [server EXCEPT !.calls = @ + 1, !.tool = "import-config",
                                               !.asked = NoAsk]
                   /\ IF Restored(polling)
                      THEN /\ config' = cfg
                           /\ pollingTimer' = TRUE
                           /\ timers' = stop(pollingTimer, timers) + 1
                           /\ isPolling' = p.isPolling
                           /\ running' = p.running
                           /\ pollTrace' = p.trace
                      ELSE /\ pollTrace' = NoTrace
                           /\ UNCHANGED <<config, pollingTimer, timers, isPolling, running>>
    /\ UNCHANGED <<saveTimer, clock, notPersist>>

\* The timeout of scheduleSave fires: `if (this.isDirty) this.saveConfig()`.
SaveTimerFires ==
    /\ server.phase = "running"
    /\ saveTimer # Undefined
    /\ clock = saveTimer
    /\ LET w == IF isDirty THEN saveConfig(document, persistedHistory, disk, isDirty, clock)
                ELSE NoWrite(document, disk, isDirty)
       IN  /\ document' = w.document
           /\ disk' = w.disk
           /\ isDirty' = w.isDirty
           /\ saved' = Wrote("timer", w, saved)
           /\ server' = [server EXCEPT !.asked = Flushed(w, @)]
    /\ saveTimer' = Undefined
    /\ UNCHANGED <<clock, persistedHistory, config, pollingTimer, timers, isPolling, running,
                   pollTrace, notPersist>>

\* SIGINT: forceSave(), then process.exit(0); the timers of the process go
\* with it.
Sigint ==
    /\ server.phase = "running"
    /\ LET w == IF isDirty THEN saveConfig(document, persistedHistory, disk, isDirty, clock)
                ELSE NoWrite(document, disk, isDirty)
       IN  /\ document' = w.document
           /\ disk' = w.disk
           /\ isDirty' = w.isDirty
           /\ saved' = Wrote("force", w, saved)
           /\ server' = [server EXCEPT !.phase = "exited", !.asked = Kept(Flushed(w, @))]
    /\ saveTimer' = Undefined
    /\ pollingTimer' = FALSE
    /\ timers' = 0
    /\ pollTrace' = NoTrace
    /\ UNCHANGED <<clock, persistedHistory, config, isPolling, running, notPersist>>

\* SIGTERM, for which no handler is installed: the process ends.
Sigterm ==
    /\ server.phase = "running"
    /\ server' = [server EXCEPT !.phase = "exited", !.asked = Kept(@)]
    /\ saveTimer' = Undefined
    /\ pollingTimer' = FALSE
    /\ timers' = 0
    /\ pollTrace' = NoTrace
    /\ saved' = Quiet(saved)
    /\ UNCHANGED <<document, disk, isDirty, clock, persistedHistory, config, isPolling,
                   running, notPersist>>

\* Time passes, up to the moment the armed timeout is due.
ClockAdvances ==
    /\ clock < MaxClock
    /\ saveTimer = Undefined \/ clock < saveTimer
    /\ clock' = IF saveTimer # Undefined THEN Min(clock + ClockStep, saveTimer)
                                         ELSE clock + ClockStep
    /\ saved' = Quiet(saved)
    /\ UNCHANGED <<document, disk, isDirty, saveTimer, server, persistedHistory, config,
                   pollingTimer, timers, isPolling, running, pollTrace, notPersist>>

PersistNext ==
    \/ ProcessStarts
    \/ HandleStartPolling
    \/ HandleStopPolling
    \/ HandleAuthorizeApp
    \/ AddAssignmentHistory
    \/ HandleImportConfig
    \/ SaveTimerFires
    \/ Sigint
    \/ Sigterm
    \/ ClockAdvances

SpecPersist == PersistInit /\ [][PersistNext]_vars

\* A step in which authorize-app was called for an app that was found and
\* was not authorized.
C21_Called ==
    /\ server'.calls = server.calls + 1
    /\ server'.tool = "authorize-app"
    /\ server'.backendKey # "none"
    /\ ~server.app.isAuthorized

\* C21 (as stated): after an authorize-app call the project is marked
\* authorized and holds the credential the backend returned if the backend
\* granted one, and remains unauthorized with no credential attached
\* otherwise.
C21_CredentialIffGranted ==
    [][C21_Called =>
          IF server'.backendKey \notin {NoCode, "thrown"}
          THEN server'.app = [isAuthorized |-> TRUE, authKey |-> server'.backendKey]
          ELSE server'.app = server.app]_vars

\* Mutations that no write has followed, in a running server.
C22_Pending == server.phase = "running" /\ saved.lastMutation # Undefined /\ saved.attempts = 0

\* A step in which the timeout of scheduleSave called saveConfig.
C22_TimerWrote == saved'.by = "timer" /\ saved'.step \in {"written", "failed"}

\* C22: a run of debounced mutations, each less than 1 second after the one
\* before, results in exactly one disk write, performed 1 second after the
\* last mutation and holding all of them: the only timeout ever armed is the
\* one of the last mutation, due 1 second after it; while mutations are
\* pending it is armed; and when it writes, it writes the whole document at
\* that time and leaves no timeout armed.
C22_OneWriteAfterLastMutation ==
    /\ []((server.phase = "running" /\ saveTimer # Undefined) =>
              saveTimer = saved.lastMutation + SaveDelay)
    /\ [](C22_Pending => (isDirty /\ saveTimer # Undefined /\ clock <= saveTimer))
    /\ [][C22_TimerWrote =>
              /\ clock = saved.lastMutation + SaveDelay
              /\ saved'.content = File("json", [document EXCEPT !.lastUpdated = clock],
                                       persistedHistory, disk.writable)
              /\ (disk.writable => disk' = saved'.content)
              /\ saveTimer' = Undefined]_vars

\* Two mutations half a second apart were written once, one second after
\* the second.
C22_Witness ==
    /\ saved.step = "written"
    /\ saved.by = "timer"
    /\ saved.burst = 2
    /\ saved.attempts = 1
    /\ clock = MaxClock
    /\ saved.lastMutation = MaxClock - SaveDelay
    /\ disk.history = persistedHistory
    /\ disk.doc = document

\* The server process ends.
C23_Exits == server.phase = "running" /\ server'.phase = "exited"

\* C23 (as stated): whenever the server process shuts down, every mutation
\* of the persisted document not yet written is flushed before exit: the
\* file then holds the document as it was in memory.
C23_ExitFlushes ==
    [][(C23_Exits /\ isDirty /\ disk.writable) =>
          disk' = File("json", [document EXCEPT !.lastUpdated = clock], persistedHistory,
                       TRUE)]_vars

\* The server starts after start-polling and stop-polling calls the last of
\* which was written to the file.
C24_Restarted ==
    /\ server.phase = "exited"
    /\ server'.phase = "running"
    /\ server.asked.call # "none"
    /\ server.asked.flushed

\* C24: after start-polling and stop-polling calls followed by a flush and
\* a restart, polling runs after the restart if and only if the last call
\* was start-polling, and then with the interval and toggles of that call.
C24_PollingRestored ==
    [][C24_Restarted =>
          /\ pollingTimer' = (server.asked.call = "start")
          /\ timers' = IF server.asked.call = "start" THEN 1 ELSE 0
          /\ (server.asked.call = "start" => config' = server.asked.config)]_vars

\* After two tool calls, the last a start-polling with an interval of its
\* own and with pools, a flush and a restart, polling runs with them.
C24_Witness ==
    /\ server.phase = "running"
    /\ server.tool = "none"
    /\ server.calls = 2
    /\ server.asked.call = "start"
    /\ server.asked.flushed
    /\ server.asked.config.interval = OtherInterval
    /\ server.asked.config.checkPools
    /\ pollingTimer
    /\ timers = 1
    /\ config = server.asked.config

\* The server process starts.
C25_Loads == server.phase = "exited" /\ server'.phase = "running"

\* An old-version document: one without a version or of a version below
\* 1.0.0.
C25_Old == disk.kind = "json" /\ disk.doc.version \in {NoCode, "0.9.0"}

\* The default document with the recognized sections of the old document
\* merged in.
C25_Merged ==
    [getDefaultConfig(clock) EXCEPT
        !.workspaces = disk.doc.workspaces,
        !.polling = Section(DOMAIN DefaultConfig,
                            [k \in DOMAIN DefaultConfig |->
                                IF k \in disk.doc.polling.has THEN disk.doc.polling.val[k]
                                ELSE DefaultConfig[k]]),
        !.preferences = Section(DOMAIN DefaultPreferences,
                                [k \in DOMAIN DefaultPreferences |->
                                    IF k \in disk.doc.preferences.has
                                    THEN disk.doc.preferences.val[k]
                                    ELSE DefaultPreferences[k]])]

\* C25: loading the persisted document never throws; a missing or malformed
\* file yields the default document, an old-version document the default
\* document with its workspaces, polling, assignments and preferences merged
\* in.
C25_LoadNeverThrows ==
    /\ [](~server.threw)
    /\ [][C25_Loads =>
              /\ (disk.kind \in {"missing", "malformed", "null"} =>
                     (document' = getDefaultConfig(clock) /\ persistedHistory' = <<>>))
              /\ (C25_Old =>
                     (document' = C25_Merged /\ persistedHistory' = disk.history))]_vars

\* The server runs on what it made of version 0.9.0 document: its polling
\* (enabled, every 60 seconds) over the default toggles, its history, its log
\* level, and nothing of its unknown section.
C25_Witness ==
    /\ server.phase = "running"
    /\ ~server.threw
    /\ disk = File("json", OldDocument, LongHistory(1), TRUE)
    /\ clock > 0
    /\ document.version = "1.0.0"
    /\ document.lastUpdated = clock
    /\ document.polling.val = [DefaultConfig EXCEPT !.enabled = TRUE, !.interval = OtherInterval]
    /\ document.preferences.val.logLevel = "debug"
    /\ document.workspaces.saved
    /\ ~document.extra
    /\ persistedHistory = LongHistory(1)

\* `after` is `before` with entries appended and the oldest dropped.
C26_Appended(before, after) ==
    \/ after = before
    \/ /\ Len(after) > 0
       /\ \E n \in 0 .. Len(before) :
             SubSeq(after, 1, Len(after) - 1) = SubSeq(before, n + 1, Len(before))

\* C26 (as stated): at all times the in-memory assignment history holds at
\* most 100 entries and the persisted one at most 500; entries are only ever
\* appended, and when a cap is exceeded the most recent are retained.
C26_HistoriesCappedAppendOnly ==
    /\ [](Len(assignmentHistory) <= HistoryLimit /\ Len(persistedHistory) <= PersistedLimit)
    /\ [][(server.phase = "running" /\ server'.phase = "running") =>
              /\ C26_Appended(persistedHistory, persistedHistory')
              /\ C26_Appended(assignmentHistory, assignmentHistory')]_vars

(***************************************************************************)
(* HttpClient.send as a sequence of steps: the executor of the promise     *)
(* issues the request and registers its handlers, and then the runtime     *)
(* emits events on the request and on the response.  The handlers are      *)
(*   res 'data', res 'end'    registered in the 'response' callback        *)
(*   req 'error', req 'timeout'                                            *)
(* and nothing else: there is no handler for 'aborted', 'error' or 'close' *)
(* of the response.  A response whose connection closes before its end     *)
(* emits only those three, none of 'end', req 'error' and req 'timeout'.   *)
(***************************************************************************)
Methods == {"GET", "POST", "PUT", "DELETE", "PATCH"}

\* resolve(...) of the promise: only the first call settles it.
resolve(h, result, message) ==
    IF h.promise = "pending"
    THEN [h EXCEPT !.promise = "resolved", !.result = result, !.message = message]
    ELSE h

\* The message of the error object send resolves with, "" without one.
errorMessage(net) ==
    IF ~send(net).hasError THEN ""
    ELSE IF net.event = "timeout" THEN "Request timeout"
    ELSE IF net.event = "error" THEN "error.message"
    ELSE "Invalid JSON response"

SendInit ==
    /\ IdleRetry
    /\ IdleClassify
    /\ IdleBackend
    /\ IdleCollision
    /\ IdlePolling
    /\ IdleRequest
    /\ IdleAssign
    /\ IdlePersistence

notSend == <<retryVars, classifyVars, backend, call, requests, scan, gate, manager, collisionVars, pollVars,
             requestVars, assignVars, persistVars>>

\* send is called: the executor calls protocol.request once, registers the
\* handlers, writes the body if there is data, and ends the request.
SendCalled ==
    /\ http.pc \in {"idle", "closed"}
    /\ \E method \in Methods, data \in BOOLEAN :
          http' = [NoSend EXCEPT !.pc = "open", !.method = method, !.data = data,
                                 !.issued = 1, !.written = data, !.promise = "pending"]
    /\ UNCHANGED notSend

\* The 'response' callback: the status line and the headers arrived.
ResponseBegins ==
    /\ http.pc = "open"
    /\ \E sc \in ResponseStatuses : http' = [http EXCEPT !.pc = "responding", !.statusCode = sc]
    /\ UNCHANGED notSend

\* res 'end': the body gathered by the 'data' handler is parsed.
ResponseEnds ==
    /\ http.pc = "responding"
    /\ \E net \in NetEvents :
          /\ net.event = "end"
          /\ net.statusCode = http.statusCode
          /\ http' = [resolve(http, send(net), errorMessage(net))
                        EXCEPT !.pc = "closed", !.cause = "end"]
    /\ UNCHANGED notSend

\* The connection closes after the response began and before its end: the
\* response emits 'aborted', 'error' and 'close', for which send has no
\* handler.
ResponseAborted ==
    /\ http.pc = "responding"
    /\ http' = [http EXCEPT !.pc = "closed", !.cause = "aborted"]
    /\ UNCHANGED notSend

\* req 'error' before any response.
RequestErrors ==
    /\ http.pc = "open"
    /\ \E net \in NetEvents :
          /\ net.event = "error"
          /\ http' = [resolve(http, send(net), errorMessage(net))
                        EXCEPT !.pc = "closed", !.cause = "error", !.code = net.code]
    /\ UNCHANGED notSend

\* req 'timeout': the handler destroys the request and resolves.
RequestTimesOut ==
    /\ http.pc \in {"open", "responding"}
    /\ LET net == Net("timeout", Undefined, "empty", NoBody, NoCode)
       IN  http' = [resolve(http, send(net), errorMessage(net))
                      EXCEPT !.pc = "destroyed", !.cause = "timeout"]
    /\ UNCHANGED notSend

\* What req.destroy() brings: req 'error' (socket hang up) when no response
\* had begun, whose handler calls resolve a second time; otherwise the
\* response is aborted.
DestroyedCloses ==
    /\ http.pc = "destroyed"
    /\ LET net == Net("error", Undefined, "empty", NoBody, "ECONNRESET")
       IN  http' = IF http.statusCode = Undefined
                   THEN [resolve(http, send(net), errorMessage(net)) EXCEPT !.pc = "closed"]
                   ELSE [http EXCEPT !.pc = "closed"]
    /\ UNCHANGED notSend

SendNext ==
    \/ SendCalled
    \/ ResponseBegins
    \/ ResponseEnds
    \/ ResponseAborted
    \/ RequestErrors
    \/ RequestTimesOut
    \/ DestroyedCloses

SpecSend == SendInit /\ [][SendNext]_vars

\* C28: HttpClient.send issues exactly one HTTP request; once the exchange is
\* over its promise is resolved, never rejected and never left pending; a
\* connection-level failure or a timeout resolves with status 0 and an error
\* object carrying the underlying code, or the message 'Request timeout'.
C28_SendAlwaysResolves ==
    (http.pc = "closed") =>
        /\ http.issued = 1
        /\ http.promise = "resolved"
        /\ (http.cause \in {"error", "timeout", "aborted"}) =>
              /\ http.result.status = 0
              /\ http.result.hasError
              /\ \/ http.cause = "error" /\ http.result.code = http.code
                 \/ http.message = "Request timeout"

(***************************************************************************)
(* The range-overlap scan, CollisionDetector.checkRangeOverlaps, asked for *)
(* by the check-range-overlaps tool.  Range IDs are FirstId .. FirstId +   *)
(* MaxSpan; an app declares one or two ranges, or none.                    *)
(***************************************************************************)
FirstId == 50000
MaxSpan == 2

ScanRanges ==
    {Range(f, t) : <<f, t>> \in {ft \in (FirstId .. FirstId + MaxSpan)
                                          \X (FirstId .. FirstId + MaxSpan) : ft[1] <= ft[2]}}

\* The workspaces scanned: none; A with one or two ranges, B with one range
\* or none, and C, when present, with one range.
ScanWorkspaces ==
    {[present |-> FALSE, apps |-> <<>>]}
        \cup {[present |-> TRUE, apps |-> <<a, b>> \o c] :
                 a \in {App("A", TRUE, <<r>>, TRUE, "keyA") : r \in ScanRanges}
                       \cup {App("A", TRUE, <<r1, r2>>, TRUE, "keyA") :
                                r1 \in ScanRanges, r2 \in ScanRanges},
                 b \in {App("B", TRUE, <<r>>, TRUE, "keyB") : r \in ScanRanges}
                       \cup {App("B", FALSE, <<>>, TRUE, "keyB")},
                 c \in {<<>>} \cup {<<App("C", TRUE, <<r>>, FALSE, NoCode)>> : r \in ScanRanges}}

ScanInit ==
    /\ IdleRetry
    /\ IdleClassify
    /\ IdleBackend
    /\ workspace \in ScanWorkspaces
    /\ consumed = [a \in AppIds |-> [t \in ObjectTypes |-> {}]]
    /\ consumptionCache = [a \in AppIds |-> [t \in ObjectTypes |-> NoEntry]]
    /\ now = 0
    /\ horizon = 0
    /\ check = IdleCheck
    /\ lastFetch = NoFetch
    /\ servedAt = [a \in AppIds |-> [t \in ObjectTypes |-> Undefined]]
    /\ events = {}
    /\ IdlePolling
    /\ IdleRequest
    /\ IdleAssign
    /\ IdlePersistence

\* check-range-overlaps: the handler awaits checkRangeOverlaps.
HandleCheckRangeOverlaps ==
    /\ ~scan.done
    /\ scan' = [done |-> TRUE, findings |-> checkRangeOverlaps(workspace)]
    /\ UNCHANGED <<retryVars, classifyVars, backend, call, requests, http, gate, manager,
                   collisionVars, pollVars, requestVars, assignVars, persistVars>>

ScanNext == HandleCheckRangeOverlaps

SpecScan == ScanInit /\ [][ScanNext]_vars

\* The ranges app number i of the workspace declares.
C29_Declared(i) ==
    IF workspace.apps[i].hasRanges THEN 1 .. Len(workspace.apps[i].ranges) ELSE {}

\* Range m of app i and range n of a later app j, for every such pair.
C29_Pairs ==
    {q \in (1 .. Len(workspace.apps)) \X (1 .. Len(workspace.apps)) \X (1 .. 2) \X (1 .. 2) :
        /\ q[1] < q[2]
        /\ q[3] \in C29_Declared(q[1])
        /\ q[4] \in C29_Declared(q[2])}

C29_First(q) == workspace.apps[q[1]].ranges[q[3]]
C29_Second(q) == workspace.apps[q[2]].ranges[q[4]]
C29_Start(q) == Max(C29_First(q).from, C29_Second(q).from)
C29_End(q) == Min(C29_First(q).to, C29_Second(q).to)

\* The findings reported for the pair q.
C29_Findings(q) ==
    {f \in scan.findings :
        /\ f.apps = <<workspace.apps[q[1]].appId, workspace.apps[q[2]].appId>>
        /\ f.ranges = <<q[3], q[4]>>}

\* C29: for each unordered pair of distinct projects of the workspace and each
\* pair of their declared ranges, the range-overlap scan reports one warning
\* finding for [max(from1,from2), min(to1,to2)] exactly when
\* max(from1,from2) <= min(to1,to2), and nothing else; ranges that are merely
\* adjacent (to1 + 1 = from2) yield no finding.
C29_OneWarningPerOverlap ==
    (scan.done /\ workspace.present) =>
        /\ \A q \in C29_Pairs :
              /\ (C29_Start(q) <= C29_End(q)) =>
                    /\ Cardinality(C29_Findings(q)) = 1
                    /\ \A f \in C29_Findings(q) :
                          /\ f.severity = "warning"
                          /\ f.id = C29_Start(q)
                          /\ f.to = C29_End(q)
              /\ (C29_Start(q) > C29_End(q)) => C29_Findings(q) = {}
              /\ (C29_First(q).to + 1 = C29_Second(q).from
                      \/ C29_Second(q).to + 1 = C29_First(q).from) => C29_Findings(q) = {}
        /\ scan.findings = UNION {C29_Findings(q) : q \in C29_Pairs}

\* A scan of three projects in which two ranges share exactly one ID and are
\* reported, and two ranges are adjacent and are not.
C29_Witness ==
    /\ scan.done
    /\ Len(workspace.apps) = 3
    /\ \E q \in C29_Pairs :
          /\ C29_First(q).to = C29_Second(q).from
          /\ C29_First(q).from < C29_First(q).to
          /\ C29_Findings(q) # {}
    /\ \E q \in C29_Pairs :
          /\ C29_First(q).to + 1 = C29_Second(q).from
          /\ C29_Findings(q) = {}

(***************************************************************************)
(* The tool filter (tools/toolFilter.ts) and the tool-call handler of      *)
(* ALObjectIdServer.setupHandlers.  A tool is its name.                    *)
(***************************************************************************)
LITE_MODE_TOOLS == {"scan-workspace", "set-active-app", "get-next-id", "reserve-id"}

NORMAL_MODE_TOOLS ==
    {"get-next-id", "sync-object-ids", "check-authorization", "authorize-app",
     "get-consumption-report", "scan-workspace", "set-active-app", "get-next-field-id",
     "get-next-enum-value-id", "check-collision", "check-range-overlaps", "assign-ids",
     "get-assignment-history", "get-statistics"}

\* The names of the tools defined in tools/toolDefinitions.ts.
TOOL_DEFINITIONS ==
    {"get-next-id", "sync-object-ids", "check-authorization", "authorize-app",
     "get-consumption-report", "scan-workspace", "get-workspace-info", "set-active-app",
     "get-next-field-id", "get-next-enum-value-id", "check-collision",
     "check-range-overlaps", "start-polling", "stop-polling", "get-polling-status",
     "assign-ids", "batch-assign", "reserve-range", "get-suggestions",
     "get-assignment-history", "save-preferences", "get-preferences", "export-config",
     "import-config", "get-statistics"}

\* The cases of the switch in the tool-call handler.
HandledTools == TOOL_DEFINITIONS \cup {"reserve-id"}

ServerModes == {"lite", "normal", "full"}

\* process.env.MCP_MODE: not set, or some text.
Environments == {"unset", "lite", "LITE", "normal", "full", "Full", "verbose"}

toLowerCase(text) ==
    CASE text = "LITE" -> "lite"
      [] text = "Full" -> "full"
      [] OTHER -> text

getServerMode(env) ==
    IF env # "unset" /\ toLowerCase(env) = "lite" THEN "lite"
    ELSE IF env # "unset" /\ toLowerCase(env) = "full" THEN "full"
    ELSE "normal"

getLiteToolsUnfiltered == LITE_MODE_TOOLS

getLiteTools == {tool \in TOOL_DEFINITIONS : tool \in LITE_MODE_TOOLS}

getNormalTools == {tool \in TOOL_DEFINITIONS : tool \in NORMAL_MODE_TOOLS}

getFullTools == TOOL_DEFINITIONS

getToolsForMode(mode) ==
    IF mode = "lite" THEN getLiteTools
    ELSE IF mode = "normal" THEN getNormalTools
    ELSE getFullTools

isToolAvailable(toolName, mode) == toolName \in getToolsForMode(mode)

\* The names a client may call: every case of the switch and a name that is
\* none of them.
CalledNames == HandledTools \cup {"no-such-tool"}

\* setupHandlers ran in the constructor: the tools to list are computed once.
ToolsInit ==
    /\ IdleRetry
    /\ IdleClassify
    /\ backend = [url |-> TRUE, pollUrl |-> TRUE]
    /\ call = IdleCall
    /\ requests = 0
    /\ http = NoSend
    /\ scan = NoScan
    /\ \E env \in Environments :
          gate = [NoGate EXCEPT !.env = env, !.tools = getToolsForMode(getServerMode(env))]
    /\ manager = NoManager
    /\ IdleCollision
    /\ IdlePolling
    /\ IdleRequest
    /\ IdleAssign
    /\ IdlePersistence

\* A tools/call request: the gate, then the switch.
CallToolRequest ==
    /\ \E name \in CalledNames :
          gate' = [gate EXCEPT
                     !.name = name,
                     !.outcome = IF ~isToolAvailable(name, getServerMode(gate.env))
                                 THEN "not available"
                                 ELSE IF name \in HandledTools THEN "handler"
                                 ELSE "unknown tool"]
    /\ UNCHANGED <<retryVars, classifyVars, backend, call, requests, http, scan, manager,
                   collisionVars, pollVars, requestVars, assignVars, persistVars>>

ToolsNext == CallToolRequest

SpecTools == ToolsInit /\ [][ToolsNext]_vars

\* C31: the tools exposed in lite mode are among those exposed in normal mode,
\* which are among those exposed in full mode; a tool call runs a handler only
\* if the named tool belongs to the current mode's set, and any other call is
\* answered as not available.
C31_ModesNestedAndGated ==
    /\ getToolsForMode("lite") \subseteq getToolsForMode("normal")
    /\ getToolsForMode("normal") \subseteq getToolsForMode("full")
    /\ gate.tools = getToolsForMode(getServerMode(gate.env))
    /\ (gate.outcome = "handler") => gate.name \in gate.tools
    /\ (gate.outcome # "none" /\ gate.name \notin gate.tools) => gate.outcome = "not available"

\* In lite mode a tool of normal mode was called and turned away.
C31_Witness ==
    /\ getServerMode(gate.env) = "lite"
    /\ gate.name = "assign-ids"
    /\ gate.name \in getToolsForMode("normal")
    /\ gate.outcome = "not available"

\* C40: once a get-next-id call has been answered (the answer tells the caller
\* to use 'reserve-id'), there is a server mode in which a call of reserve-id
\* is dispatched to its handler.
C40_ReserveIdDispatchable ==
    (gate.name = "get-next-id" /\ gate.outcome = "handler") =>
        \E mode \in ServerModes : isToolAvailable("reserve-id", mode)

(***************************************************************************)
(* The requests of an assign-ids call and what they do to the backend.     *)
(***************************************************************************)
\* An assign-ids call for an authorized app, running or returned.
C32_Call == assign.tool = "assign-ids" /\ assign.authorized

\* C32 (as stated): an assign-ids call for N IDs issues at most N allocation
\* requests, one at a time, followed by at most one sync request, and that
\* sync request carries exactly the IDs the call reports as granted.
C32_AtMostNRequests ==
    C32_Call =>
        /\ assign.sent.getNext + assign.sent.suggest <= assign.count
        /\ assign.sent.syncIds <= 1
        /\ (assign.pc = "done" /\ assign.sent.syncIds = 1) =>
              assign.payload = assign.assignedIds

\* C32 (amended): the allocation loop of an assign-ids call for N IDs (an
\* absent or zero count is read as 1) issues at most N allocation requests,
\* one at a time and all before the sync; at most one sync request follows,
\* carrying exactly the IDs the call reports as granted; only when a collision
\* was found and alternatives were asked for do further allocation requests
\* follow the sync, at most 15 of them.
C32_LoopThenOneSync ==
    /\ [](C32_Call =>
            /\ assign.count >= 1
            /\ assign.sent.getNext <= assign.count
            /\ assign.sent.syncIds <= 1
            /\ assign.sent.suggest <= MaxAttempts
            /\ (assign.sent.suggest > 0) =>
                  (assign.collisions # <<>> /\ assign.suggestAlternatives)
            /\ (assign.sent.syncIds = 1) => assign.payload = assign.assignedIds
            /\ (assign.pc = "done" /\ assign.answer.text = "assigned") =>
                  (assign.sent.syncIds = 1 /\ assign.payload = assign.assignedIds))
    /\ [][(C32_Call /\ assign.pc # "done" /\ assign'.tool = "assign-ids") =>
            /\ (assign'.sent.getNext + assign'.sent.syncIds + assign'.sent.suggest
                  <= assign.sent.getNext + assign.sent.syncIds + assign.sent.suggest + 1)
            /\ (assign'.sent.getNext > assign.sent.getNext) => assign.sent.syncIds = 0
            /\ (assign'.sent.suggest > assign.sent.suggest) =>
                  assign'.pc = "altGetNext" /\ assign.pc \in {"check", "getNext", "sync",
                                                            "altGetNext", "altCheck"}]_vars

\* A call for two IDs that used both requests of its loop, synchronized what
\* it granted and then asked for alternatives.
C32_Witness ==
    /\ C32_Call
    /\ assign.pc = "done"
    /\ assign.count = 2
    /\ assign.sent.getNext = 2
    /\ assign.sent.syncIds = 1
    /\ assign.sent.suggest > 0
    /\ assign.payload = assign.assignedIds
    /\ assign.answer.text = "assigned"

\* C33: the IDs granted by a single assign-ids call are pairwise distinct.
C33_GrantedDistinct ==
    C32_Call =>
        \A m \in 1 .. Len(assign.assignedIds), n \in 1 .. Len(assign.assignedIds) :
            m # n => assign.assignedIds[m] # assign.assignedIds[n]

\* C34: no assignment operation (assign-ids, reserve-range) removes an already
\* consumed ID from the backend consumption of the project: what the backend
\* holds after the operation's sync includes what it held before.
C34_ConsumptionOnlyGrows ==
    [][(assign.tool \in {"assign-ids", "reserve-range"}) =>
          \A a \in AppIds, t \in ObjectTypes : consumed[a][t] \subseteq consumed'[a][t]]_vars

\* C35: assign-ids reports success only if the granted IDs were synchronized
\* to the backend; when the sync fails the call reports failure.
C35_SuccessOnlyIfSynced ==
    (C32_Call /\ assign.pc = "done") =>
        /\ (~assign.answer.isError) => assign.synced = "ok"
        /\ (assign.synced = "failed") => assign.answer.isError

(***************************************************************************)
(* The polling status: getStatus().enabled is config.enabled.              *)
(***************************************************************************)
\* C36: the enabled flag reported by the polling status is true exactly when
\* an interval timer is armed; after stop the reported flag is false, and a
\* later configuration update that leaves the enabled flag alone (one that
\* changes only the interval) does not re-arm the timer.
C36_EnabledIffTimerArmed ==
    /\ [](config.enabled <=> pollingTimer)
    /\ [][Stop => ~config'.enabled]_vars
    /\ [][(UpdateConfig /\ ~pollingTimer /\ config'.enabled = config.enabled) =>
              ~pollingTimer']_vars

\* A step of import-config in which importConfig returned true.
C37_Imported ==
    /\ HandleImportConfig
    /\ saved'.by = "import"
    /\ saved'.step \in {"written", "failed"}

\* C37: after a successful import-config, polling is running if and only if
\* polling.enabled of the imported document is true; importing a document with
\* polling disabled while polling is running stops it.
C37_ImportSetsPolling ==
    [][C37_Imported =>
          /\ pollingTimer' = Restored(document'.polling)
          /\ timers' = IF Restored(document'.polling) THEN 1 ELSE 0]_vars

\* C38: provided every backend request eventually completes, every started
\* poll cycle eventually finishes and releases the in-flight guard, whether
\* its checks succeed or fail; a cycle without a workspace never holds the
\* guard.
C38_CycleFinishes ==
    /\ (isPolling \/ Len(running) > 0) ~> (~isPolling /\ Len(running) = 0)
    /\ [](~workspace.present => ~isPolling)

\* A cycle has ended with a failed backend request and the guard is free.
C38_Witness ==
    /\ pollTrace.settled.check = "consumption"
    /\ ~pollTrace.settled.ok
    /\ Len(running) = 0
    /\ ~isPolling
    /\ pollingTimer

(***************************************************************************)
(* WorkspaceManager and the app lookup of the tool handlers                *)
(* (ALObjectIdServer.getAppFromPath).  An app is named by its path; the    *)
(* persisted copy of the workspace is followed in SpecPersist.             *)
(***************************************************************************)

\* isALApp(dirPath): the directory holds an app.json (loadAppInfo succeeds on
\* each of them).
isALApp(dirPath) == dirPath \in {"/ws/A", "/ws/B", "/solo"}

\* The subdirectories readdir lists; readdir of a missing directory throws and
\* the scan goes on with what it has.
SubDirs(workspacePath) == IF workspacePath = "/ws" THEN {"/ws/B", "/ws/A"} ELSE {}

\* The apps in the order of `a.name.localeCompare(b.name)`.
AppsByName == <<"/ws/A", "/ws/B", "/solo">>

\* The paths of a list of apps.
PathsOf(apps) == {apps[n] : n \in 1 .. Len(apps)}

\* WorkspaceManager.scanWorkspace(workspacePath): the workspace it builds.
ScannedInfo(workspacePath) ==
    LET found == (IF isALApp(workspacePath) THEN {workspacePath} ELSE {})
                     \cup {dir \in SubDirs(workspacePath) : isALApp(dir)}
        InFound(path) == path \in found
        apps == SelectSeq(AppsByName, InFound)
    IN  [present |-> TRUE, apps |-> apps,
         activeApp |-> IF Len(apps) = 1 THEN apps[1] ELSE NoCode]

\* WorkspaceManager.scanWorkspace(workspacePath): `this.workspaces.set(...)`,
\* `this.currentWorkspace = workspacePath`.
scanWorkspace(m, workspacePath) ==
    [m EXCEPT !.workspaces[workspacePath] = ScannedInfo(workspacePath),
              !.currentWorkspace = workspacePath]

\* WorkspaceManager.getCurrentWorkspace().
getCurrentWorkspace(m) ==
    IF m.currentWorkspace = NoCode THEN NoInfo ELSE m.workspaces[m.currentWorkspace]

\* WorkspaceManager.setActiveApp(appPath): the manager afterwards.
setActiveApp(m, appPath) ==
    IF getCurrentWorkspace(m).present /\ appPath \in PathsOf(getCurrentWorkspace(m).apps)
    THEN [m EXCEPT !.workspaces[m.currentWorkspace].activeApp = appPath]
    ELSE m

\* WorkspaceManager.getAppByPath(appPath): the app, or NoCode for undefined.
getAppByPath(m, appPath) ==
    IF \E root \in Roots : appPath \in PathsOf(m.workspaces[root].apps)
    THEN appPath
    ELSE NoCode

\* getAppFromPath(appPath): the manager afterwards and the app returned
\* (NoCode for null); appPath NoCode is an absent argument.
getAppFromPath(m, appPath) ==
    IF appPath = NoCode
    THEN [manager |-> m, app |-> getCurrentWorkspace(m).activeApp]
    ELSE IF getAppByPath(m, appPath) # NoCode
    THEN [manager |-> m, app |-> getAppByPath(m, appPath)]
    ELSE LET scanned == scanWorkspace(m, appPath)
             info == scanned.workspaces[appPath]
         IN  [manager |-> scanned,
              app |-> IF Len(info.apps) > 0 THEN info.apps[1] ELSE NoCode]

\* The sibling enumeration of CollisionDetector.checkCollision: the apps of the
\* current workspace other than currentApp.
Siblings(m, currentApp) == PathsOf(getCurrentWorkspace(m).apps) \ {currentApp}

notLookup == <<retryVars, classifyVars, backend, call, requests, http, scan, gate,
               collisionVars, pollVars, requestVars, assignVars, persistVars>>

LookupInit ==
    /\ IdleRetry
    /\ IdleClassify
    /\ IdleBackend
    /\ IdleCollision
    /\ IdlePolling
    /\ IdleRequest
    /\ IdleAssign
    /\ IdlePersistence

\* scan-workspace.
HandleScanWorkspace ==
    /\ \E workspacePath \in Roots :
          manager' = [scanWorkspace(manager, workspacePath) EXCEPT
                        !.tool = "scan-workspace", !.appPath = workspacePath,
                        !.app = NoCode, !.siblings = {}]
    /\ UNCHANGED notLookup

\* set-active-app.
HandleSetActiveApp ==
    /\ \E appPath \in Roots :
          manager' = [setActiveApp(manager, appPath) EXCEPT
                        !.tool = "set-active-app", !.appPath = appPath,
                        !.app = NoCode, !.siblings = {}]
    /\ UNCHANGED notLookup

\* get-next-id: the lookup of the app; the request that follows is
\* BackendService.getNext.
HandleGetNextObjectId ==
    /\ \E appPath \in Roots \cup {NoCode} :
          LET found == getAppFromPath(manager, appPath)
          IN  manager' = [found.manager EXCEPT
                            !.tool = "get-next-id", !.appPath = appPath,
                            !.app = found.app, !.siblings = {}]
    /\ UNCHANGED notLookup

\* check-collision: the lookup of the app, then checkCollision over the
\* apps of the current workspace.
HandleCheckCollision ==
    /\ \E appPath \in Roots \cup {NoCode} :
          LET found == getAppFromPath(manager, appPath)
          IN  manager' = [found.manager EXCEPT
                            !.tool = "check-collision", !.appPath = appPath,
                            !.app = found.app,
                            !.siblings = IF found.app = NoCode THEN {}
                                         ELSE Siblings(found.manager, found.app)]
    /\ UNCHANGED notLookup

LookupNext ==
    \/ HandleScanWorkspace
    \/ HandleSetActiveApp
    \/ HandleGetNextObjectId
    \/ HandleCheckCollision

SpecLookup == LookupInit /\ [][LookupNext]_vars

\* C39: a get-next-id or check-collision call that names its project by an
\* explicit appPath leaves the workspaces of the manager (their apps and
\* their active app) and the current workspace as they were.
C39_LookupLeavesWorkspace ==
    [][(manager'.tool \in {"get-next-id", "check-collision"} /\ manager'.appPath # NoCode) =>
          /\ manager'.workspaces = manager.workspaces
          /\ manager'.currentWorkspace = manager.currentWorkspace]_vars

====
